---- MODULE Spec2Model ----
(***************************************************************************)
(* Torchcrawl GM Control Panel: the generation and state-transition engine *)
(* (models.py, utils.py, site_logic.py, overland_logic.py, config.py and   *)
(* the handlers of app.py).                                                *)
(*                                                                         *)
(* Conventions.  Python's None is the string "None".  An Optional object  *)
(* held in a global (weather, rest info) is a sequence of length 0 (None)  *)
(* or 1.  A dict is a function whose DOMAIN is its key set; an ordered     *)
(* dict of weights is a sequence of [key, weight] pairs in insertion       *)
(* order.  A percentage string is a sequence of one-character strings.     *)
(* Probabilities and uniform draws are in hundredths: a roll of            *)
(* random.random() is an integer 0..99, a chance is 0..100, and            *)
(* random.uniform(0, total) is total * u / 100 for u in 0..100.            *)
(* config.calendar_data is an Optional calendar record: its current_date   *)
(* and its lunar_day are Optional too, and an absent lunar_cycle_length   *)
(* is 0.                                                                   *)
(***************************************************************************)
EXTENDS Integers, Sequences, FiniteSets, TLC

VARIABLES
    generated_site_time,
    generated_site_timers,
    generated_site_encounters,
    site_expansions,
    selected_site_zone,
    generated_overland_days,
    generated_overland_weather,
    generated_overland_encounters,
    generated_overland_rest_info,
    selected_overland_zone,
    selected_overland_overlay,
    selected_overland_season,
    last_call,
    site_hist,
    prior_day_weather,
    fn_call,
    calendar_data

vars == <<generated_site_time, generated_site_timers, generated_site_encounters,
          site_expansions, selected_site_zone, generated_overland_days,
          generated_overland_weather, generated_overland_encounters,
          generated_overland_rest_info, selected_overland_zone,
          selected_overland_overlay, selected_overland_season,
          last_call, site_hist, prior_day_weather, fn_call, calendar_data>>

site_vars == <<generated_site_time, generated_site_timers, generated_site_encounters,
               site_expansions, selected_site_zone, site_hist>>

overland_vars == <<generated_overland_days, generated_overland_weather,
                   generated_overland_encounters, generated_overland_rest_info,
                   selected_overland_zone, selected_overland_overlay,
                   selected_overland_season, prior_day_weather>>

None == "None"

(***************************************************************************)
(* config.py constants                                                     *)
(***************************************************************************)
OVERLAND_WATCHES == <<"Dawn", "Morning", "Afternoon", "Dusk", "Early Night", "Late Night">>

SITE_TIME_SLOTS == <<"Current", "10 minutes", "20 minutes", "30 minutes", "40 minutes", "50 minutes">>

Range(s) == {s[i] : i \in DOMAIN s}

IndexOf(s, x) == CHOOSE i \in DOMAIN s : s[i] = x

SlotIndex == [slot \in Range(SITE_TIME_SLOTS) |-> IndexOf(SITE_TIME_SLOTS, slot)]

WatchIndex == [watch \in Range(OVERLAND_WATCHES) |-> IndexOf(OVERLAND_WATCHES, watch)]

(***************************************************************************)
(* utils.parse_percentage                                                  *)
(***************************************************************************)
Digits == <<"0", "1", "2", "3", "4", "5", "6", "7", "8", "9">>

DigitValue(c) == (CHOOSE i \in DOMAIN Digits : Digits[i] = c) - 1

RECURSIVE Strip(_)
Strip(s) ==
    IF s = <<>> THEN s
    ELSE IF Head(s) = " " THEN Strip(Tail(s))
    ELSE IF s[Len(s)] = " " THEN Strip(SubSeq(s, 1, Len(s) - 1))
    ELSE s

RECURSIVE DigitsToNat(_)
DigitsToNat(s) ==
    IF s = <<>> THEN 0
    ELSE 10 * DigitsToNat(SubSeq(s, 1, Len(s) - 1)) + DigitValue(s[Len(s)])

\* float(cleaned) on the strings of the model's alphabet (digits, sign, space,
\* letters, "%"): an optionally signed, non-empty run of digits converts, anything
\* else raises ValueError.
FloatOf(s) ==
    LET t == Strip(s)
        signed == t # <<>> /\ Head(t) \in {"-", "+"}
        d == IF signed THEN Tail(t) ELSE t
        ok == d # <<>> /\ \A i \in DOMAIN d : d[i] \in Range(Digits)
    IN  [ok |-> ok,
         value |-> IF ~ok THEN 0
                   ELSE IF signed /\ Head(t) = "-" THEN 0 - DigitsToNat(d)
                   ELSE DigitsToNat(d)]

Max(a, b) == IF a >= b THEN a ELSE b

Min(a, b) == IF a <= b THEN a ELSE b

\* value is the returned float in hundredths: max(0.0, min(1.0, value / 100.0)).
ParsePercentage(percentage_str) ==
    LET stripped == Strip(percentage_str)
        cleaned == IF stripped # <<>> /\ stripped[Len(stripped)] = "%"
                   THEN Strip(SubSeq(stripped, 1, Len(stripped) - 1))
                   ELSE stripped
        f == FloatOf(cleaned)
    IN  [ok |-> f.ok, value |-> IF f.ok THEN Max(0, Min(100, f.value)) ELSE 0]

(***************************************************************************)
(* utils.weighted_random_choice                                            *)
(***************************************************************************)
RECURSIVE SumWeights(_)
SumWeights(ws) == IF ws = <<>> THEN 0 ELSE Head(ws).weight + SumWeights(Tail(ws))

\* The cumulative walk: the first key whose cumulative weight is >= the draw,
\* the last key as the fallback.  The draw is total * u / 100.
RECURSIVE CumulativeWalk(_, _, _, _)
CumulativeWalk(valid, total, u, cumulative) ==
    IF Len(valid) = 1 THEN Head(valid).key
    ELSE IF total * u <= (cumulative + Head(valid).weight) * 100 THEN Head(valid).key
    ELSE CumulativeWalk(Tail(valid), total, u, cumulative + Head(valid).weight)

\* A selector that falls back to the last key when nothing is positive.
WeightedRandomChoiceWithFallback(weights, u) ==
    LET valid_weights == SelectSeq(weights, LAMBDA p : p.weight > 0)
    IN  IF weights = <<>> THEN [ok |-> FALSE, key |-> None]
        ELSE IF valid_weights = <<>> THEN [ok |-> TRUE, key |-> weights[Len(weights)].key]
        ELSE [ok |-> TRUE,
              key |-> CumulativeWalk(valid_weights, SumWeights(valid_weights), u, 0)]

\* A selector that walks all entries, not only the positive ones.
WeightedRandomChoiceUnfiltered(weights, u) ==
    LET valid_weights == SelectSeq(weights, LAMBDA p : p.weight > 0)
    IN  IF valid_weights = <<>> THEN [ok |-> FALSE, key |-> None]
        ELSE [ok |-> TRUE, key |-> CumulativeWalk(weights, SumWeights(valid_weights), u, 0)]

WeightedRandomChoice(weights, u) ==
    LET valid_weights == SelectSeq(weights, LAMBDA p : p.weight > 0)
        total_weight == SumWeights(valid_weights)
    IN  IF valid_weights = <<>> \/ total_weight = 0
        THEN [ok |-> FALSE, key |-> None]
        ELSE [ok |-> TRUE, key |-> CumulativeWalk(valid_weights, total_weight, u, 0)]

(***************************************************************************)
(* Loaded data (config.zones_data, encounters_data, weathers_data,         *)
(* restinfo_data and the weight tables): a fixture of the shapes that      *)
(* data_loader.py accepts.  load_zones_file keeps encounter_chance as the  *)
(* file gives it and validate_data only warns, so a zone whose chance does *)
(* not parse ("Mire", "Crypt") and a zone missing from the weight table    *)
(* ("Vault", a site zone that is also an overlay) both pass loading.       *)
(***************************************************************************)
Chars(a, b, c) == <<a, b, c>>

zones_data ==
    [Forest |-> [types |-> {"Overland"}, encounter_chance |-> Chars("5", "0", "%")],
     Mire   |-> [types |-> {"Overland"}, encounter_chance |-> Chars("a", "b", "c")],
     Fog    |-> [types |-> {"Overlay"},  encounter_chance |-> <<" ", "1", "0", "0", " ", "%", " ">>],
     Cave   |-> [types |-> {"Site"},     encounter_chance |-> Chars("5", "0", "%")],
     Vault  |-> [types |-> {"Site", "Overlay"}, encounter_chance |-> <<"1", "0", "0", "%">>],
     Crypt  |-> [types |-> {"Site"},     encounter_chance |-> Chars("a", "b", "c")]]

zone_file_order == <<"Forest", "Mire", "Fog", "Cave", "Vault", "Crypt">>

ZonesOfType(type) == SelectSeq(zone_file_order, LAMBDA z : type \in zones_data[z].types)

overland_zones_list == ZonesOfType("Overland")

overland_overlay_list == ZonesOfType("Overlay")

site_zones_list == ZonesOfType("Site")

encounters_data ==
    [Bat  |-> [description |-> "A cloud of bats", habitat |-> "Caves",
               sparks |-> <<"Screeching", "Guano">>,
               watch |-> [dusk |-> <<"1", "0", "0", "%">>,
                          morning |-> Chars("5", "0", "%")]],
     Rat  |-> [description |-> "Giant rats", habitat |-> "Anywhere",
               sparks |-> <<"Gnawing">>,
               watch |-> [dawn |-> Chars("5", "0", "%"), morning |-> Chars("5", "0", "%"),
                          afternoon |-> Chars("5", "0", "%"), dusk |-> Chars("5", "0", "%")]],
     Wolf |-> [description |-> "A hunting pack", habitat |-> "Woods",
               sparks |-> <<"Howling", "Tracks">>,
               watch |-> [dusk |-> <<"1", "0", "0", "%">>,
                          afternoon |-> <<"1", "5", "0", "%">>]]]

\* encounter_by_zone: the 2D table [Encounter, Zone]; NaN cells were filled with 0.
encounter_by_zone ==
    [Encounter |-> <<"Bat", "Rat", "Wolf">>,
     Zone |-> {"Forest", "Mire", "Fog", "Cave", "Crypt"},
     values |-> [Bat  |-> [Forest |-> 0, Mire |-> 1, Fog |-> 2, Cave |-> 2, Crypt |-> 1],
                 Rat  |-> [Forest |-> 1, Mire |-> 1, Fog |-> 0, Cave |-> 1, Crypt |-> 1],
                 Wolf |-> [Forest |-> 3, Mire |-> 0, Fog |-> 0, Cave |-> 0, Crypt |-> 0]]]

watch_keys ==
    [w \in Range(OVERLAND_WATCHES) |->
        CASE w = "Dawn" -> "dawn" [] w = "Morning" -> "morning"
          [] w = "Afternoon" -> "afternoon" [] w = "Dusk" -> "dusk"
          [] w = "Early Night" -> "early night" [] OTHER -> "late night"]

\* data_loader.generate_encounter_by_zone_and_watch: cell = zone weight times the
\* parsed watch percentage ('0%' when the encounter names no such watch).  Cells
\* are in hundredths of the 2D weight.
WatchPercentage(encounter, watch) ==
    LET w == encounters_data[encounter].watch
    IN  IF watch_keys[watch] \in DOMAIN w
        THEN ParsePercentage(w[watch_keys[watch]]).value
        ELSE ParsePercentage(Chars("0", "%", " ")).value

encounter_by_zone_and_watch ==
    [Encounter |-> encounter_by_zone.Encounter,
     Zone |-> encounter_by_zone.Zone,
     Watch |-> Range(OVERLAND_WATCHES),
     values |-> [e \in Range(encounter_by_zone.Encounter) |->
                    [z \in encounter_by_zone.Zone |->
                        [w \in Range(OVERLAND_WATCHES) |->
                            encounter_by_zone.values[e][z] * WatchPercentage(e, w)]]]]

weathers_data ==
    [Rain |-> [effects |-> <<"Wet">>],
     Snow |-> [effects |-> <<"Cold", "Wet">>]]

\* weather_by_season: the 2D table [Weather, Season].  "Dry" has no positive cell;
\* "Gale" has no entry in weathers_data (a validation warning only).
weather_by_season ==
    [Weather |-> <<"No Change", "Rain", "Snow", "Gale">>,
     Season |-> {"Summer", "Winter", "Dry"},
     values |-> [w \in {"No Change", "Rain", "Snow", "Gale"} |->
                    CASE w = "No Change" -> [Summer |-> 2, Winter |-> 1, Dry |-> 0]
                      [] w = "Rain" -> [Summer |-> 1, Winter |-> 0, Dry |-> 0]
                      [] w = "Snow" -> [Summer |-> 0, Winter |-> 2, Dry |-> 0]
                      [] OTHER -> [Summer |-> 0, Winter |-> 1, Dry |-> 0]]]

seasons_list == <<"Summer", "Winter", "Dry">>

restinfo_data ==
    [rest_DCs |-> [Summer |-> <<[camp |-> "Open", dc |-> 10]>>,
                   Winter |-> <<[camp |-> "Open", dc |-> 15], [camp |-> "Tent", dc |-> 12]>>],
     weather_modifiers |-> <<[effect |-> "Wet", modifier |-> 2],
                             [effect |-> "Cold", modifier |-> 5],
                             [effect |-> "Hot", modifier |-> 1]>>,
     situational_modifiers |-> <<[situation |-> "Campfire", modifier |-> 0 - 2]>>]

(***************************************************************************)
(* models.Encounter                                                        *)
(***************************************************************************)
\* Encounter.__init__, and the five assignments of every "no encounter" branch.
NoEncounter ==
    [name |-> None, time |-> None, sparks |-> <<>>, description |-> None, habitat |-> None]

IsEncounter(e) == e.name # None

\* A populate step that loses the assignment of the name.
PopulateWithoutName(selected, slot, enc_data) ==
    [name |-> None, time |-> slot, sparks |-> enc_data[selected].sparks,
     description |-> enc_data[selected].description, habitat |-> enc_data[selected].habitat]

\* The populate step: encounters_data[selected] raises KeyError before any field
\* is assigned when the selected encounter has no definition.
Populate(selected, slot, enc_data) ==
    [name |-> selected, time |-> slot, sparks |-> enc_data[selected].sparks,
     description |-> enc_data[selected].description, habitat |-> enc_data[selected].habitat]

\* Steps 4-5 of both generators, the body of the try block: collect the positive
\* cells in the table's Encounter order, select, populate.  cell_ok is false when
\* the .loc lookup raises KeyError (zone or watch not a coordinate), cells gives
\* the cell of each encounter otherwise; every exception of the block ends in
\* the "no encounter" assignments.
SelectAndPopulate(coords, cell_ok, cells, slot, enc_data, u) ==
    IF ~cell_ok THEN [enc |-> NoEncounter, caught |-> TRUE]
    ELSE
        LET all == [i \in DOMAIN coords |-> [key |-> coords[i], weight |-> cells[coords[i]]]]
            weights == SelectSeq(all, LAMBDA p : p.weight > 0)
            choice == WeightedRandomChoice(weights, u)
        IN  IF weights = <<>> THEN [enc |-> NoEncounter, caught |-> FALSE]
            ELSE IF ~choice.ok \/ choice.key \notin DOMAIN enc_data
                 THEN [enc |-> NoEncounter, caught |-> TRUE]
            ELSE [enc |-> Populate(choice.key, slot, enc_data), caught |-> FALSE]

\* A chance test that never takes the `roll > encounter_chance` return.
ChanceTestIgnoringRoll(zone, z_data, roll) ==
    IF zone \notin DOMAIN z_data THEN "raise"
    ELSE IF ~ParsePercentage(z_data[zone].encounter_chance).ok THEN "raise"
    ELSE "select"

\* Steps 2-3 of both generators, which run before the try block: the chance
\* lookup (KeyError on a zone without metadata), parse_percentage (ValueError)
\* and the roll.  "raise" propagates to the caller.
ChanceTest(zone, z_data, roll) ==
    IF zone \notin DOMAIN z_data THEN "raise"
    ELSE LET chance == ParsePercentage(z_data[zone].encounter_chance)
         IN  IF ~chance.ok THEN "raise"
             ELSE IF roll > chance.value THEN "none"
             ELSE "select"

ActiveZone(zone, overlay, coin) ==
    IF overlay # None /\ coin < 50 THEN overlay ELSE zone

\* Encounter.generate_overland_encounter on a fresh Encounter(); s = [coin, roll, u]
\* are the three values the call takes from the random source.
GenerateOverlandEncounter(zone, overlay, watch, enc_data, table, z_data, s) ==
    LET active_zone == ActiveZone(zone, overlay, s.coin)
        test == ChanceTest(active_zone, z_data, s.roll)
        picked == SelectAndPopulate(table.Encounter,
                                    active_zone \in table.Zone /\ watch \in table.Watch,
                                    [e \in Range(table.Encounter) |->
                                        table.values[e][active_zone][watch]],
                                    watch, enc_data, s.u)
    IN  CASE test = "raise"  -> [raised |-> TRUE, caught |-> FALSE, enc |-> NoEncounter]
          [] test = "none"   -> [raised |-> FALSE, caught |-> FALSE, enc |-> NoEncounter]
          [] OTHER           -> [raised |-> FALSE, caught |-> picked.caught, enc |-> picked.enc]

\* Encounter.generate_site_encounter on a fresh Encounter(); s = [roll, u].
GenerateSiteEncounter(zone, time_slot, enc_data, table, z_data, s) ==
    LET test == ChanceTest(zone, z_data, s.roll)
        picked == SelectAndPopulate(table.Encounter, zone \in table.Zone,
                                    [e \in Range(table.Encounter) |-> table.values[e][zone]],
                                    time_slot, enc_data, s.u)
    IN  CASE test = "raise"  -> [raised |-> TRUE, caught |-> FALSE, enc |-> NoEncounter]
          [] test = "none"   -> [raised |-> FALSE, caught |-> FALSE, enc |-> NoEncounter]
          [] OTHER           -> [raised |-> FALSE, caught |-> picked.caught, enc |-> picked.enc]

(***************************************************************************)
(* models.Weather                                                          *)
(***************************************************************************)
max_attempts == 100

\* A fallback other than "Clear".
StormWeather == [name |-> "Storm", effects |-> <<"Wet">>]

ClearWeather == [name |-> "Clear", effects |-> <<>>]

\* The draw of attempt i: a random source that gives s.u0 for the first s.k
\* attempts and s.u1 afterwards.
DrawOf(s, attempt) == IF attempt <= s.k THEN s.u0 ELSE s.u1

\* Steps 1-2 of the loop body: the positive cells of the season's column in the
\* table's Weather order, and the selection the draw of attempt `attempt` makes.
WeatherWeights(season, table) ==
    LET all == [i \in DOMAIN table.Weather |->
                   [key |-> table.Weather[i], weight |-> table.values[table.Weather[i]][season]]]
    IN  SelectSeq(all, LAMBDA p : p.weight > 0)

SelectedWeather(season, table, s, attempt) ==
    WeightedRandomChoice(WeatherWeights(season, table), DrawOf(s, attempt)).key

\* A generation that stores the first selection as it is, sentinel included.
GenerateWeatherStoringSentinel(season, previous_weather, table, w_data, s) ==
    [raised |-> FALSE,
     weather |-> [name |-> SelectedWeather(season, table, s, 1), effects |-> <<>>],
     draws |-> 1, no_change |-> 0, kept |-> FALSE]

\* Weather.generate_weather on a fresh Weather().  previous_weather is <<>> (None)
\* or <<w>>.  The while loop runs attempts 1..max_attempts and is left by the
\* first attempt that does not `continue`: any attempt when a previous weather
\* exists, otherwise one whose selection is not "No Change"; when no attempt
\* leaves it, the fallback after the loop applies.  The .loc lookup raises
\* KeyError for a season that is not a column.  The result carries the number of
\* selector draws made, how many of them selected "No Change", and whether
\* "No Change" kept the previous weather.
GenerateWeather(season, previous_weather, table, w_data, s) ==
    IF table.Weather # <<>> /\ season \notin table.Season
    THEN [raised |-> TRUE, weather |-> [name |-> None, effects |-> <<>>],
          draws |-> 0, no_change |-> 0, kept |-> FALSE]
    ELSE IF WeatherWeights(season, table) = <<>>
    THEN [raised |-> FALSE, weather |-> ClearWeather, draws |-> 0, no_change |-> 0,
          kept |-> FALSE]
    ELSE
        LET leaving == {a \in 1..max_attempts :
                           \/ previous_weather # <<>>
                           \/ SelectedWeather(season, table, s, a) # "No Change"}
            attempt == CHOOSE a \in leaving : \A b \in leaving : a <= b
            selected_weather == SelectedWeather(season, table, s, attempt)
        IN  IF leaving = {}
            THEN [raised |-> FALSE, weather |-> ClearWeather, draws |-> max_attempts,
                  no_change |-> max_attempts, kept |-> FALSE]
            ELSE IF selected_weather = "No Change"
            THEN [raised |-> FALSE,
                  weather |-> [name |-> previous_weather[1].name,
                               effects |-> previous_weather[1].effects],
                  draws |-> attempt, no_change |-> attempt, kept |-> TRUE]
            ELSE [raised |-> FALSE,
                  weather |-> [name |-> selected_weather,
                               effects |-> IF selected_weather \in DOMAIN w_data
                                           THEN w_data[selected_weather].effects
                                           ELSE <<>>],
                  draws |-> attempt, no_change |-> attempt - 1, kept |-> FALSE]

(***************************************************************************)
(* Site session (site_logic.py and the site handlers of app.py)            *)
(*                                                                         *)
(* last_call records the handler that ran last and whether an exception    *)
(* left it.  site_hist is a history variable: the "50 minutes" encounter   *)
(* of the last completed reset, the number of new-turn calls since, and    *)
(* the encounters those calls generated (valid is false before any reset   *)
(* and after a regeneration).                                              *)
(***************************************************************************)
Get(d, k, default) == IF k \in DOMAIN d THEN d[k] ELSE default

EmptyDict == [k \in {} |-> None]

NoHist == [valid |-> FALSE, reset50 |-> NoEncounter, turns |-> 0, generated |-> <<>>]

Call(op, raised) == [op |-> op, raised |-> raised, kept |-> FALSE]

\* A timer update that also removes the timers that reach exactly 0.
DecrementTimersDroppingZero(timers) ==
    LET decremented == [i \in DOMAIN timers |->
                           [timers[i] EXCEPT !.remaining_duration = @ - 10]]
    IN  SelectSeq(decremented, LAMBDA t : t.remaining_duration > 0)

\* A timer update that removes nothing.
DecrementTimersKeepingExpired(timers) ==
    [i \in DOMAIN timers |-> [timers[i] EXCEPT !.remaining_duration = @ - 10]]

\* site_new_turn, step 2: decrement every timer by 10, keep those >= 0.
DecrementTimers(timers) ==
    LET decremented == [i \in DOMAIN timers |->
                           [timers[i] EXCEPT !.remaining_duration = @ - 10]]
    IN  SelectSeq(decremented, LAMBDA t : t.remaining_duration >= 0)

\* site_new_turn, step 3: the expansion flags move one slot towards Current.
ShiftExpansions(old_expansions) ==
    [slot \in Range(SITE_TIME_SLOTS) |->
        CASE slot = "Current"    -> Get(old_expansions, "10 minutes", FALSE)
          [] slot = "10 minutes" -> Get(old_expansions, "20 minutes", FALSE)
          [] slot = "20 minutes" -> Get(old_expansions, "30 minutes", FALSE)
          [] slot = "30 minutes" -> Get(old_expansions, "40 minutes", FALSE)
          [] slot = "40 minutes" -> Get(old_expansions, "50 minutes", FALSE)
          [] OTHER               -> FALSE]

\* A shift that sets the time of every populated encounter it moves to the label
\* of the slot it moves to.
ShiftEncountersRelabelling(old_encounters, new_50_encounter) ==
    [slot \in Range(SITE_TIME_SLOTS) |->
        IF slot = "50 minutes" THEN new_50_encounter
        ELSE LET moved == Get(old_encounters, SITE_TIME_SLOTS[SlotIndex[slot] + 1], NoEncounter)
             IN  IF IsEncounter(moved) THEN [moved EXCEPT !.time = slot] ELSE moved]

\* site_new_turn, step 4: the encounters move one slot towards Current and the
\* new encounter takes "50 minutes"; a missing key gives a fresh Encounter().
ShiftEncounters(old_encounters, new_50_encounter) ==
    [slot \in Range(SITE_TIME_SLOTS) |->
        CASE slot = "Current"    -> Get(old_encounters, "10 minutes", NoEncounter)
          [] slot = "10 minutes" -> Get(old_encounters, "20 minutes", NoEncounter)
          [] slot = "20 minutes" -> Get(old_encounters, "30 minutes", NoEncounter)
          [] slot = "30 minutes" -> Get(old_encounters, "40 minutes", NoEncounter)
          [] slot = "40 minutes" -> Get(old_encounters, "50 minutes", NoEncounter)
          [] OTHER               -> new_50_encounter]

\* The values of the random source the specifications draw from: rolls at 0,
\* at a chance of 50% and above it, draws at both ends and in the middle.
Rolls == {0, 50, 51, 99}

Draws == {0, 50, 100}

SiteSampleSpace == [roll : Rolls, u : Draws]

OverlandSampleSpace == [coin : {0, 49, 50, 99}, roll : Rolls, u : Draws]

\* The call every site handler makes, generate_site_encounter with config's data,
\* tabulated over the selectable zones, the slots and the sample space.
site_encounter ==
    [zone \in Range(site_zones_list) |->
        [time_slot \in Range(SITE_TIME_SLOTS) |->
            [s \in SiteSampleSpace |->
                GenerateSiteEncounter(zone, time_slot, encounters_data, encounter_by_zone,
                                      zones_data, s)]]]

\* generate_site_encounters: one call per slot in SITE_TIME_SLOTS order, samples[i]
\* being what call i takes from the random source.  An exception of any call
\* leaves the function before config.generated_site_encounters is assigned.
GenerateSiteEncounters(include_current, zone, samples) ==
    LET results == [i \in DOMAIN SITE_TIME_SLOTS |->
                       IF SITE_TIME_SLOTS[i] = "Current" /\ ~include_current
                       THEN [raised |-> FALSE, caught |-> FALSE, enc |-> NoEncounter]
                       ELSE site_encounter[zone][SITE_TIME_SLOTS[i]][samples[i]]]
    IN  [raised |-> \E i \in DOMAIN results : results[i].raised,
         encounters |-> [slot \in Range(SITE_TIME_SLOTS) |-> results[SlotIndex[slot]].enc]]

\* The Reset button: site_reset.
SiteReset(samples) ==
    LET gen == GenerateSiteEncounters(FALSE, selected_site_zone, samples)
    IN  /\ generated_site_time' = 0
        /\ generated_site_timers' = <<>>
        /\ site_expansions' = EmptyDict
        /\ generated_site_encounters' =
               IF gen.raised THEN generated_site_encounters ELSE gen.encounters
        /\ site_hist' = IF gen.raised THEN NoHist
                        ELSE [valid |-> TRUE, reset50 |-> gen.encounters["50 minutes"],
                              turns |-> 0, generated |-> <<>>]
        /\ last_call' = Call("site_reset", gen.raised)
        /\ UNCHANGED <<calendar_data, selected_site_zone, overland_vars, fn_call>>

\* The New Turn button: site_new_turn.
SiteNewTurn(sample) ==
    LET gen == site_encounter[selected_site_zone]["50 minutes"][sample]
    IN  /\ generated_site_time' = generated_site_time + 10
        /\ generated_site_timers' = DecrementTimers(generated_site_timers)
        /\ site_expansions' = ShiftExpansions(site_expansions)
        /\ generated_site_encounters' =
               IF gen.raised THEN generated_site_encounters
               ELSE ShiftEncounters(generated_site_encounters, gen.enc)
        /\ site_hist' = IF ~site_hist.valid THEN site_hist
                        ELSE [site_hist EXCEPT
                                 !.turns = @ + 1,
                                 !.generated = IF gen.raised THEN @ ELSE Append(@, gen.enc)]
        /\ last_call' = Call("site_new_turn", gen.raised)
        /\ UNCHANGED <<calendar_data, selected_site_zone, overland_vars, fn_call>>

\* The Regenerate All button: site_regenerate_turn.
SiteRegenerateTurn(samples) ==
    LET gen == GenerateSiteEncounters(TRUE, selected_site_zone, samples)
    IN  /\ generated_site_encounters' =
               IF gen.raised THEN generated_site_encounters ELSE gen.encounters
        /\ site_hist' = NoHist
        /\ last_call' = Call("site_regenerate_turn", gen.raised)
        /\ UNCHANGED <<calendar_data, generated_site_time, generated_site_timers, site_expansions,
                       selected_site_zone, overland_vars, fn_call>>

\* The regenerate button of one rendered slot: regenerate_individual_site_encounter.
\* site_content renders a button only for a slot the dict holds.
RegenerateIndividualSiteEncounter(time_slot, sample) ==
    LET gen == site_encounter[selected_site_zone][time_slot][sample]
    IN  /\ time_slot \in DOMAIN generated_site_encounters
        /\ generated_site_encounters' =
               IF gen.raised THEN generated_site_encounters
               ELSE [generated_site_encounters EXCEPT ![time_slot] = gen.enc]
        /\ site_hist' = NoHist
        /\ last_call' = Call("regenerate_individual_site_encounter", gen.raised)
        /\ UNCHANGED <<calendar_data, generated_site_time, generated_site_timers, site_expansions,
                       selected_site_zone, overland_vars, fn_call>>

\* A sort that puts an element before the elements of equal key that precede it.
RECURSIVE SortPlacingLaterFirst(_)
SortPlacingLaterFirst(timers) ==
    IF timers = <<>> THEN <<>>
    ELSE LET last == timers[Len(timers)]
             sorted == SortPlacingLaterFirst(SubSeq(timers, 1, Len(timers) - 1))
             before == SelectSeq(sorted, LAMBDA t : t.remaining_duration < last.remaining_duration)
             after == SelectSeq(sorted, LAMBDA t : t.remaining_duration >= last.remaining_duration)
         IN  before \o <<last>> \o after

\* Sorted insertion point of list.sort(key=...), which is stable: after every
\* element whose key is <= the new key.
RECURSIVE StableSort(_)
StableSort(timers) ==
    IF timers = <<>> THEN <<>>
    ELSE LET last == timers[Len(timers)]
             sorted == StableSort(SubSeq(timers, 1, Len(timers) - 1))
             before == SelectSeq(sorted, LAMBDA t : t.remaining_duration <= last.remaining_duration)
             after == SelectSeq(sorted, LAMBDA t : t.remaining_duration > last.remaining_duration)
         IN  before \o <<last>> \o after

\* site_add_timer without the sort of the list.
SiteAddTimerAtEnd(name, duration) ==
    LET timer == [name |-> name, remaining_duration |-> IF duration < 0 THEN 0 ELSE duration]
    IN  /\ generated_site_timers' = Append(generated_site_timers, timer)
        /\ last_call' = [op |-> "site_add_timer", raised |-> FALSE, kept |-> FALSE,
                         name |-> name, duration |-> duration]
        /\ UNCHANGED <<calendar_data, generated_site_time, generated_site_encounters, site_expansions,
                       selected_site_zone, site_hist, overland_vars, fn_call>>

\* The Add Timer button: site_add_timer(name, duration).  last_call keeps the
\* arguments of the call.
SiteAddTimer(name, duration) ==
    LET timer == [name |-> name, remaining_duration |-> IF duration < 0 THEN 0 ELSE duration]
    IN  /\ generated_site_timers' = StableSort(Append(generated_site_timers, timer))
        /\ last_call' = [op |-> "site_add_timer", raised |-> FALSE, kept |-> FALSE,
                         name |-> name, duration |-> duration]
        /\ UNCHANGED <<calendar_data, generated_site_time, generated_site_encounters, site_expansions,
                       selected_site_zone, site_hist, overland_vars, fn_call>>

\* site_delete_timer without the test for a negative index: del list[i] with
\* -len <= i < 0 removes the element at len + i, and raises IndexError below -len.
SiteDeleteTimerFromTheEnd(timer_index) ==
    LET n == Len(generated_site_timers)
        i == IF timer_index < 0 THEN n + timer_index ELSE timer_index
    IN  /\ generated_site_timers' =
               IF timer_index >= n \/ i < 0
               THEN generated_site_timers
               ELSE SubSeq(generated_site_timers, 1, i)
                    \o SubSeq(generated_site_timers, i + 2, n)
        /\ last_call' = [op |-> "site_delete_timer", raised |-> timer_index < n /\ i < 0,
                         kept |-> FALSE, timer_index |-> timer_index, before |-> n]
        /\ UNCHANGED <<calendar_data, generated_site_time, generated_site_encounters, site_expansions,
                       selected_site_zone, site_hist, overland_vars, fn_call>>

\* The delete button of a timer row: site_delete_timer(timer_index), 0-based.
\* last_call keeps the argument and the length of the list before the call.
SiteDeleteTimer(timer_index) ==
    /\ generated_site_timers' =
           IF timer_index < 0 \/ timer_index >= Len(generated_site_timers)
           THEN generated_site_timers
           ELSE SubSeq(generated_site_timers, 1, timer_index)
                \o SubSeq(generated_site_timers, timer_index + 2, Len(generated_site_timers))
    /\ last_call' = [op |-> "site_delete_timer", raised |-> FALSE, kept |-> FALSE,
                     timer_index |-> timer_index, before |-> Len(generated_site_timers)]
    /\ UNCHANGED <<calendar_data, generated_site_time, generated_site_encounters, site_expansions,
                   selected_site_zone, site_hist, overland_vars, fn_call>>

\* The Site Zone dropdown.
SelectSiteZone(zone) ==
    /\ zone \in Range(site_zones_list)
    /\ selected_site_zone' = zone
    /\ last_call' = Call("select_site_zone", FALSE)
    /\ UNCHANGED <<calendar_data, generated_site_time, generated_site_timers, generated_site_encounters,
                   site_expansions, site_hist, overland_vars, fn_call>>

\* A click on a rendered, populated encounter's name: toggle_expand of render_encounter.
ToggleExpand(label) ==
    /\ label \in DOMAIN generated_site_encounters
    /\ IsEncounter(generated_site_encounters[label])
    /\ site_expansions' =
           [k \in DOMAIN site_expansions \cup {label} |->
               IF k = label THEN ~Get(site_expansions, label, FALSE) ELSE site_expansions[k]]
    /\ last_call' = Call("toggle_expand", FALSE)
    /\ UNCHANGED <<calendar_data, generated_site_time, generated_site_timers, generated_site_encounters,
                   selected_site_zone, site_hist, overland_vars, fn_call>>

(***************************************************************************)
(* Overland session (overland_logic.py and the overland handlers of app.py *)
(* with no dated calendar active)                                          *)
(*                                                                         *)
(* prior_day_weather is a history variable: the weather the session held   *)
(* when the current day began (<<>> on the first day).                     *)
(***************************************************************************)
\* generate_overland_rest_info from the selected season and the stored weather.
RestInfo(season, weather) ==
    LET effects == IF weather = <<>> THEN <<>> ELSE weather[1].effects
    IN  [rest_dcs |-> Get(restinfo_data.rest_DCs, season, <<>>),
         weather_modifiers |->
             IF effects = <<>> THEN <<>>
             ELSE SelectSeq(restinfo_data.weather_modifiers,
                            LAMBDA m : m.effect \in Range(effects)),
         situational_modifiers |-> restinfo_data.situational_modifiers]

\* The call every overland handler makes, generate_overland_encounter with
\* config's data, tabulated over the selectable zones and overlays, the watches
\* and the sample space.
overland_encounter ==
    [zone \in Range(overland_zones_list) |->
        [overlay \in Range(overland_overlay_list) \cup {None} |->
            [watch \in Range(OVERLAND_WATCHES) |->
                [s \in OverlandSampleSpace |->
                    GenerateOverlandEncounter(zone, overlay, watch, encounters_data,
                                              encounter_by_zone_and_watch, zones_data, s)]]]]

\* generate_overland_encounters: one call per watch in OVERLAND_WATCHES order; an
\* exception of any call leaves before config.generated_overland_encounters is
\* assigned.
GenerateOverlandEncounters(zone, overlay, samples) ==
    LET results == [i \in DOMAIN OVERLAND_WATCHES |->
                       overland_encounter[zone][overlay][OVERLAND_WATCHES[i]][samples[i]]]
    IN  [raised |-> \E i \in DOMAIN results : results[i].raised,
         encounters |-> [watch \in Range(OVERLAND_WATCHES) |-> results[WatchIndex[watch]].enc]]

\* The weathers a session can hold: None, the fallback, and every row of the
\* table but the sentinel with the effects weathers_data gives it.
StoredWeathers ==
    {<<>>, <<ClearWeather>>}
        \cup {<<[name |-> w, effects |-> IF w \in DOMAIN weathers_data
                                          THEN weathers_data[w].effects ELSE <<>>]>> :
                  w \in Range(weather_by_season.Weather) \ {"No Change"}}

WeatherSampleSpace == [k : {0, 1}, u0 : Draws, u1 : Draws]

\* The call both weather handlers make, generate_weather with config's data,
\* tabulated over the seasons, the stored weathers and the sample space.
overland_weather ==
    [season \in Range(seasons_list) |->
        [previous_weather \in StoredWeathers |->
            [s \in WeatherSampleSpace |->
                GenerateWeather(season, previous_weather, weather_by_season,
                                weathers_data, s)]]]

\* What the three generators leave in config, w being the outcome of
\* generate_overland_weather and e that of generate_overland_encounters: the first
\* exception ends the handler with the earlier assignments in place.
StoreDayContent(w, e) ==
    /\ generated_overland_weather' =
           IF w.raised THEN generated_overland_weather ELSE <<w.weather>>
    /\ generated_overland_encounters' =
           IF w.raised \/ e.raised THEN generated_overland_encounters ELSE e.encounters
    /\ generated_overland_rest_info' =
           IF w.raised \/ e.raised THEN generated_overland_rest_info
           ELSE <<RestInfo(selected_overland_season, <<w.weather>>)>>

\* generate_overland_weather, generate_overland_encounters and
\* generate_overland_rest_info in the order both day handlers run them.
GenerateDayContent(wsample, esamples) ==
    StoreDayContent(
        overland_weather[selected_overland_season][generated_overland_weather][wsample],
        GenerateOverlandEncounters(selected_overland_zone, selected_overland_overlay, esamples))

\* The stored content, and what the handler op leaves in last_call.
StoreDay(op, w, e) ==
    /\ StoreDayContent(w, e)
    /\ last_call' = [op |-> op, raised |-> w.raised \/ e.raised, kept |-> w.kept]

\* The three generators as the day handler op runs them.
GenerateDay(op, wsample, esamples) ==
    StoreDay(op,
        overland_weather[selected_overland_season][generated_overland_weather][wsample],
        GenerateOverlandEncounters(selected_overland_zone, selected_overland_overlay, esamples))

\* The Reset button: overland_reset.
OverlandReset ==
    /\ generated_overland_days' = 0
    /\ generated_overland_weather' = <<>>
    /\ generated_overland_encounters' = EmptyDict
    /\ generated_overland_rest_info' = <<>>
    /\ prior_day_weather' = <<>>
    /\ last_call' = Call("overland_reset", FALSE)
    /\ UNCHANGED <<calendar_data, selected_overland_zone, selected_overland_overlay,
                   selected_overland_season, site_vars, fn_call>>

\* The New Day button: overland_new_day.
OverlandNewDay(wsample, esamples) ==
    /\ generated_overland_days' = generated_overland_days + 1
    /\ GenerateDay("overland_new_day", wsample, esamples)
    /\ prior_day_weather' = generated_overland_weather
    /\ UNCHANGED <<calendar_data, selected_overland_zone, selected_overland_overlay,
                   selected_overland_season, site_vars, fn_call>>

\* A Regenerate All that also counts a day.
OverlandRegenerateDayCountingADay(wsample, esamples) ==
    /\ generated_overland_days' = generated_overland_days + 1
    /\ GenerateDay("overland_regenerate_day", wsample, esamples)
    /\ UNCHANGED <<calendar_data, prior_day_weather, selected_overland_zone,
                   selected_overland_overlay, selected_overland_season, site_vars, fn_call>>

\* The Regenerate All button: overland_regenerate_day.
OverlandRegenerateDay(wsample, esamples) ==
    /\ GenerateDay("overland_regenerate_day", wsample, esamples)
    /\ UNCHANGED <<calendar_data, generated_overland_days, prior_day_weather, selected_overland_zone,
                   selected_overland_overlay, selected_overland_season, site_vars, fn_call>>

\* regenerate_individual_weather without its call of generate_overland_rest_info.
RegenerateIndividualWeatherKeepingRestInfo(wsample) ==
    LET w == overland_weather[selected_overland_season][generated_overland_weather][wsample]
    IN  /\ generated_overland_weather # <<>>
        /\ generated_overland_weather[1].name # None
        /\ generated_overland_weather' =
               IF w.raised THEN generated_overland_weather ELSE <<w.weather>>
        /\ last_call' = [op |-> "regenerate_individual_weather", raised |-> w.raised,
                         kept |-> w.kept]
        /\ UNCHANGED <<calendar_data, generated_overland_days, generated_overland_encounters,
                       generated_overland_rest_info, prior_day_weather,
                       selected_overland_zone, selected_overland_overlay,
                       selected_overland_season, site_vars, fn_call>>

\* The regenerate button beside the weather, rendered when a named weather is
\* stored: regenerate_individual_weather.
RegenerateIndividualWeather(wsample) ==
    LET w == overland_weather[selected_overland_season][generated_overland_weather][wsample]
    IN  /\ generated_overland_weather # <<>>
        /\ generated_overland_weather[1].name # None
        /\ generated_overland_weather' =
               IF w.raised THEN generated_overland_weather ELSE <<w.weather>>
        /\ generated_overland_rest_info' =
               IF w.raised THEN generated_overland_rest_info
               ELSE <<RestInfo(selected_overland_season, <<w.weather>>)>>
        /\ last_call' = [op |-> "regenerate_individual_weather", raised |-> w.raised,
                         kept |-> w.kept]
        /\ UNCHANGED <<calendar_data, generated_overland_days, generated_overland_encounters,
                       prior_day_weather, selected_overland_zone, selected_overland_overlay,
                       selected_overland_season, site_vars, fn_call>>

\* regenerate_individual_overland_encounter storing the encounter under every watch.
RegenerateEveryWatch(watch, sample) ==
    LET gen == overland_encounter[selected_overland_zone][selected_overland_overlay][watch][sample]
    IN  /\ watch \in DOMAIN generated_overland_encounters
        /\ generated_overland_encounters' =
               IF gen.raised THEN generated_overland_encounters
               ELSE [w \in DOMAIN generated_overland_encounters |-> gen.enc]
        /\ last_call' = Call("regenerate_individual_overland_encounter", gen.raised)
        /\ UNCHANGED <<calendar_data, generated_overland_days, generated_overland_weather,
                       generated_overland_rest_info, prior_day_weather,
                       selected_overland_zone, selected_overland_overlay,
                       selected_overland_season, site_vars, fn_call>>

\* The regenerate button of one rendered watch: regenerate_individual_overland_encounter.
RegenerateIndividualOverlandEncounter(watch, sample) ==
    LET gen == overland_encounter[selected_overland_zone][selected_overland_overlay][watch][sample]
    IN  /\ watch \in DOMAIN generated_overland_encounters
        /\ generated_overland_encounters' =
               IF gen.raised THEN generated_overland_encounters
               ELSE [generated_overland_encounters EXCEPT ![watch] = gen.enc]
        /\ last_call' = Call("regenerate_individual_overland_encounter", gen.raised)
        /\ UNCHANGED <<calendar_data, generated_overland_days, generated_overland_weather,
                       generated_overland_rest_info, prior_day_weather,
                       selected_overland_zone, selected_overland_overlay,
                       selected_overland_season, site_vars, fn_call>>

\* The Zone, Overlay and Season dropdowns of overland_content.
SelectOverlandZone(zone) ==
    /\ zone \in Range(overland_zones_list)
    /\ selected_overland_zone' = zone
    /\ last_call' = Call("select_overland_zone", FALSE)
    /\ UNCHANGED <<calendar_data, generated_overland_days, generated_overland_weather,
                   generated_overland_encounters, generated_overland_rest_info,
                   prior_day_weather, selected_overland_overlay,
                   selected_overland_season, site_vars, fn_call>>

SelectOverlandOverlay(overlay) ==
    /\ overlay \in Range(overland_overlay_list) \cup {None}
    /\ selected_overland_overlay' = overlay
    /\ last_call' = Call("select_overland_overlay", FALSE)
    /\ UNCHANGED <<calendar_data, generated_overland_days, generated_overland_weather,
                   generated_overland_encounters, generated_overland_rest_info,
                   prior_day_weather, selected_overland_zone,
                   selected_overland_season, site_vars, fn_call>>

SelectSeason(season) ==
    /\ season \in Range(seasons_list)
    /\ selected_overland_season' = season
    /\ last_call' = Call("select_season", FALSE)
    /\ UNCHANGED <<calendar_data, generated_overland_days, generated_overland_weather,
                   generated_overland_encounters, generated_overland_rest_info,
                   prior_day_weather, selected_overland_zone,
                   selected_overland_overlay, site_vars, fn_call>>

(***************************************************************************)
(* The state after main(): config.py's defaults, the selections set to the *)
(* first entry of each list.                                               *)
(***************************************************************************)
NoCall == [fn |-> "none"]

Init ==
    /\ generated_site_time = 0
    /\ generated_site_timers = <<>>
    /\ generated_site_encounters = EmptyDict
    /\ site_expansions = EmptyDict
    /\ selected_site_zone = site_zones_list[1]
    /\ generated_overland_days = 0
    /\ generated_overland_weather = <<>>
    /\ generated_overland_encounters = EmptyDict
    /\ generated_overland_rest_info = <<>>
    /\ selected_overland_zone = overland_zones_list[1]
    /\ selected_overland_overlay = None
    /\ selected_overland_season = seasons_list[1]
    /\ last_call = Call("main", FALSE)
    /\ site_hist = NoHist
    /\ prior_day_weather = <<>>
    /\ fn_call = NoCall
    /\ calendar_data = <<>>

(***************************************************************************)
(* Single calls of the generators.  fn_call holds the arguments and the    *)
(* outcome of the call in progress; Return ends it.  The arguments range   *)
(* over everything a caller can pass, beyond what config holds: a zone     *)
(* without metadata, a watch outside the table, encounter definitions that *)
(* lack a table encounter.                                                 *)
(***************************************************************************)
\* encounters_data without the definition of "Bat".
encounters_data_without_bat ==
    [e \in DOMAIN encounters_data \ {"Bat"} |-> encounters_data[e]]

DataOf(id) == IF id = "full" THEN encounters_data ELSE encounters_data_without_bat

CallGenerateSiteEncounter(zone, time_slot, data, s) ==
    LET r == GenerateSiteEncounter(zone, time_slot, DataOf(data), encounter_by_zone,
                                   zones_data, s)
    IN  /\ fn_call = NoCall
        /\ fn_call' = [fn |-> "generate_site_encounter", zone |-> zone, overlay |-> None,
                       slot |-> time_slot, active_zone |-> zone, data |-> data,
                       s |-> s, raised |-> r.raised, caught |-> r.caught,
                       enc |-> r.enc]
        /\ UNCHANGED <<calendar_data, site_vars, overland_vars, last_call>>

CallGenerateOverlandEncounter(zone, overlay, watch, data, s) ==
    LET r == GenerateOverlandEncounter(zone, overlay, watch, DataOf(data),
                                       encounter_by_zone_and_watch, zones_data, s)
    IN  /\ fn_call = NoCall
        /\ fn_call' = [fn |-> "generate_overland_encounter", zone |-> zone,
                       overlay |-> overlay, slot |-> watch,
                       active_zone |-> ActiveZone(zone, overlay, s.coin), data |-> data,
                       s |-> s, raised |-> r.raised, caught |-> r.caught,
                       enc |-> r.enc]
        /\ UNCHANGED <<calendar_data, site_vars, overland_vars, last_call>>

CallGenerateWeather(season, previous_weather, s) ==
    LET r == GenerateWeather(season, previous_weather, weather_by_season, weathers_data, s)
    IN  /\ fn_call = NoCall
        /\ fn_call' = [fn |-> "generate_weather", season |-> season,
                       previous_weather |-> previous_weather, s |-> s,
                       raised |-> r.raised,
                       weather |-> r.weather, draws |-> r.draws,
                       no_change |-> r.no_change, kept |-> r.kept]
        /\ UNCHANGED <<calendar_data, site_vars, overland_vars, last_call>>

Return ==
    /\ fn_call # NoCall
    /\ fn_call' = NoCall
    /\ UNCHANGED <<calendar_data, site_vars, overland_vars, last_call>>

(***************************************************************************)
(* Specifications.  Each explores one part of the program under its own    *)
(* bounds and its own values of the random source.                         *)
(***************************************************************************)
\* SpecGen: single calls of the two encounter generators.
GenZones == {"Forest", "Mire", "Cave", "Vault", "Crypt", "Nowhere"}

GenOverlays == {None, "Fog", "Vault"}

GenWatches == {"Dawn", "Afternoon", "Dusk", "Noon"}

GenSlots == {"Current", "50 minutes"}

GenCoins == {49, 50}

NextGen ==
    \/ \E zone \in GenZones, time_slot \in GenSlots, data \in {"full", "partial"},
          s \in SiteSampleSpace :
           CallGenerateSiteEncounter(zone, time_slot, data, s)
    \/ \E zone \in GenZones, overlay \in GenOverlays, watch \in GenWatches,
          data \in {"full", "partial"}, s \in [coin : GenCoins, roll : Rolls, u : Draws] :
           CallGenerateOverlandEncounter(zone, overlay, watch, data, s)
    \/ Return

SpecGen == Init /\ [][NextGen]_vars

\* SpecWeatherFn: single calls of Weather.generate_weather.  The random source
\* gives u0 for the first k draws and u1 afterwards.
WeatherRuns == [k : {0, 1, max_attempts - 1, max_attempts}, u0 : Draws, u1 : Draws]

PreviousWeathers ==
    {<<>>, <<[name |-> "Rain", effects |-> <<"Wet">>]>>, <<ClearWeather>>,
     <<[name |-> "Gale", effects |-> <<>>]>>}

NextWeatherFn ==
    \/ \E season \in Range(seasons_list), previous_weather \in PreviousWeathers,
          s \in WeatherRuns :
           CallGenerateWeather(season, previous_weather, s)
    \/ Return

SpecWeatherFn == Init /\ [][NextWeatherFn]_vars

\* One site generation: "Bat" (roll 0, first key), or no encounter (roll 99).
SiteHit == [roll |-> 0, u |-> 0]

SiteMiss == [roll |-> 99, u |-> 50]

SiteSamples == {SiteHit, SiteMiss}

\* What the calls of one generate_site_encounters take from the random source:
\* the same sample for every slot, or hits and misses in turn.
SiteRuns ==
    {[i \in DOMAIN SITE_TIME_SLOTS |-> s] : s \in SiteSamples}
        \cup {[i \in DOMAIN SITE_TIME_SLOTS |-> IF i % 2 = 0 THEN SiteHit ELSE SiteMiss]}

\* SpecTurn: Reset, New Turn and the zone dropdown; no regeneration.
MaxTurnTime == 50

NextTurn ==
    \/ \E samples \in SiteRuns : SiteReset(samples)
    \/ \E sample \in SiteSamples :
           generated_site_time < MaxTurnTime /\ SiteNewTurn(sample)
    \/ \E zone \in {"Cave", "Crypt"} : SelectSiteZone(zone)

SpecTurn == Init /\ [][NextTurn]_vars

\* SpecTimers: the timer list under Add Timer, the delete buttons and New Turn,
\* with quiet rolls, in a zone where generation returns and in one where it raises.
MaxTimers == 3

MaxTimerTime == 30

TimerNames == {"torch", "ward"}

TimerDurations == {0 - 5, 10, 20}

NextTimers ==
    \/ \E name \in TimerNames, duration \in TimerDurations :
           Len(generated_site_timers) < MaxTimers /\ SiteAddTimer(name, duration)
    \/ \E timer_index \in (0 - 1)..MaxTimers : SiteDeleteTimer(timer_index)
    \/ generated_site_time < MaxTimerTime /\ SiteNewTurn(SiteMiss)
    \/ \E zone \in {"Cave", "Crypt"} : SelectSiteZone(zone)

SpecTimers == Init /\ [][NextTimers]_vars

\* One overland generation: an encounter of the overlay when there is one (coin 0),
\* or no encounter in the base zone.
OverlandHit == [coin |-> 0, roll |-> 0, u |-> 0]

OverlandMiss == [coin |-> 99, roll |-> 99, u |-> 0]

OverlandSamples == {OverlandHit, OverlandMiss}

OverlandRuns == {[i \in DOMAIN OVERLAND_WATCHES |-> s] : s \in OverlandSamples}

QuietDay == [i \in DOMAIN OVERLAND_WATCHES |-> OverlandMiss]

\* One weather generation: every draw at the low end ("No Change" where it has
\* weight) or at the high end (the last positive row).
WeatherSamples == {[k |-> 0, u0 |-> 0, u1 |-> 0], [k |-> 0, u0 |-> 0, u1 |-> 100]}

\* SpecOverland: the day handlers and the zone and overlay dropdowns.
MaxOverlandDays == 2

NextOverland ==
    \/ OverlandReset
    \/ \E wsample \in WeatherSamples, esamples \in OverlandRuns :
           generated_overland_days < MaxOverlandDays /\ OverlandNewDay(wsample, esamples)
    \/ \E wsample \in WeatherSamples, esamples \in OverlandRuns :
           OverlandRegenerateDay(wsample, esamples)
    \/ \E zone \in {"Forest", "Mire"} : SelectOverlandZone(zone)
    \/ \E overlay \in {None, "Fog"} : SelectOverlandOverlay(overlay)

SpecOverland == Init /\ [][NextOverland]_vars

\* SpecWeather: every handler that generates weather, and the season dropdown;
\* the watches stay quiet.
MaxWeatherDays == 2

NextWeather ==
    \/ OverlandReset
    \/ \E wsample \in WeatherSamples :
           generated_overland_days < MaxWeatherDays /\ OverlandNewDay(wsample, QuietDay)
    \/ \E wsample \in WeatherSamples : OverlandRegenerateDay(wsample, QuietDay)
    \/ \E wsample \in WeatherSamples : RegenerateIndividualWeather(wsample)
    \/ \E season \in {"Summer", "Winter"} : SelectSeason(season)

SpecWeather == Init /\ [][NextWeather]_vars

\* SpecStore: every handler that stores encounters without moving time or day,
\* over zones and overlays with and without a column in the weight tables.
NextStore ==
    \/ \E samples \in SiteRuns : SiteRegenerateTurn(samples)
    \/ \E sample \in SiteSamples : RegenerateIndividualSiteEncounter("Current", sample)
    \/ \E zone \in Range(site_zones_list) : SelectSiteZone(zone)
    \/ \E esamples \in OverlandRuns :
           OverlandRegenerateDay([k |-> 0, u0 |-> 0, u1 |-> 100], esamples)
    \/ \E sample \in OverlandSamples :
           RegenerateIndividualOverlandEncounter("Dusk", sample)
    \/ \E overlay \in {None, "Fog", "Vault"} : SelectOverlandOverlay(overlay)

SpecStore == Init /\ [][NextStore]_vars

(***************************************************************************)
(* Properties                                                              *)
(***************************************************************************)
AllSlots == Range(SITE_TIME_SLOTS)

AllWatches == Range(OVERLAND_WATCHES)

Blank == [name |-> None, time |-> None, sparks |-> <<>>, description |-> None,
          habitat |-> None]

\* C1: a site new-turn on a full window slides it by one slot (Current takes the
\* former +10, ..., +40 the former +50, +50 is filled) and adds exactly 10 to
\* the elapsed minutes.
NewTurnSlidesWindow ==
    [][(last_call'.op = "site_new_turn" /\ DOMAIN generated_site_encounters = AllSlots)
          => /\ generated_site_time' = generated_site_time + 10
             /\ DOMAIN generated_site_encounters' = AllSlots
             /\ \A i \in 1..5 :
                    generated_site_encounters'[SITE_TIME_SLOTS[i]]
                        = generated_site_encounters[SITE_TIME_SLOTS[i + 1]]]_vars

\* C2: five consecutive new-turns after a reset leave in Current the encounter
\* the reset generated into +50, and in +10..+50 the encounters the five calls
\* generated, in call order.
FiveTurnsRotateWindow ==
    (site_hist.valid /\ site_hist.turns = 5)
        => /\ Len(site_hist.generated) = 5
           /\ generated_site_encounters["Current"] = site_hist.reset50
           /\ \A i \in 1..Len(site_hist.generated) :
                  generated_site_encounters[SITE_TIME_SLOTS[i + 1]] = site_hist.generated[i]

\* C3: a site new-turn takes 10 from every timer, removes those that fall below
\* 0, keeps those at 0 or above, and keeps the survivors in their order.
TimersDecrementedAndFiltered ==
    [][last_call'.op = "site_new_turn"
          => LET old == generated_site_timers
                 new == generated_site_timers'
                 survivors == {i \in DOMAIN old : old[i].remaining_duration - 10 >= 0}
             IN  /\ Len(new) = Cardinality(survivors)
                 /\ \A j \in DOMAIN new :
                        LET i == CHOOSE x \in survivors :
                                     Cardinality({m \in survivors : m < x}) = j - 1
                        IN  /\ new[j].name = old[i].name
                            /\ new[j].remaining_duration = old[i].remaining_duration - 10]_vars

TimerAtZeroStays ==
    /\ last_call.op = "site_new_turn"
    /\ generated_site_time = 10
    /\ generated_site_timers = <<[name |-> "ward", remaining_duration |-> 0],
                                 [name |-> "torch", remaining_duration |-> 0],
                                 [name |-> "ward", remaining_duration |-> 10]>>

\* C4: after an overland new-day the day counter has advanced and the session
\* holds one weather, one encounter for each of the six watches, and the rest
\* info derived from that weather.
NewDayReplacesAll ==
    last_call.op = "overland_new_day"
        => /\ generated_overland_days >= 1
           /\ Len(generated_overland_weather) = 1
           /\ DOMAIN generated_overland_encounters = AllWatches
           /\ generated_overland_rest_info
                  = <<RestInfo(selected_overland_season, generated_overland_weather)>>

\* C5: the stored weather is never named "No Change", on day 1 (no previous
\* weather) or after any sequence of reset, new-day, regenerate-day and
\* regenerate-weather.
StoredWeatherNeverSentinel ==
    generated_overland_weather # <<>> => generated_overland_weather[1].name # "No Change"

FirstDayFallsBackToClear ==
    /\ last_call.op = "overland_new_day"
    /\ generated_overland_days = 1
    /\ prior_day_weather = <<>>
    /\ selected_overland_season = "Summer"
    /\ generated_overland_weather = <<[name |-> "Clear", effects |-> <<>>]>>

\* C6: on a day after the first, a generation (new-day, regenerate-day or
\* regenerate-weather) that draws "No Change" leaves the weather of the prior day.
NoChangeKeepsPriorDay ==
    (/\ last_call.op \in {"overland_new_day", "overland_regenerate_day",
                          "regenerate_individual_weather"}
     /\ ~last_call.raised
     /\ last_call.kept
     /\ generated_overland_days > 1)
        => generated_overland_weather = prior_day_weather

\* C7: weather generation returns without an error after at most 100 draws with a
\* named weather; a season without a positive weight, and 100 draws of
\* "No Change" with no previous weather, both give "Clear" with no effects.
WeatherGenerationTerminates ==
    fn_call.fn = "generate_weather"
        => /\ ~fn_call.raised
           /\ fn_call.draws <= 100
           /\ fn_call.weather.name # None
           /\ (\A w \in Range(weather_by_season.Weather) :
                   weather_by_season.values[w][fn_call.season] <= 0)
                  => fn_call.weather = [name |-> "Clear", effects |-> <<>>]
           /\ (fn_call.previous_weather = <<>> /\ fn_call.no_change = 100)
                  => fn_call.weather = [name |-> "Clear", effects |-> <<>>]

HundredNoChangeDraws ==
    /\ fn_call.fn = "generate_weather"
    /\ fn_call.previous_weather = <<>>
    /\ fn_call.draws = 100
    /\ fn_call.no_change = 100
    /\ fn_call.weather.name = "Clear"

\* C8: a call of either encounter generator returns normally, and with the
\* encounter blank whenever the active zone has no metadata or no parsable
\* chance, the zone or watch is not in the weight table, or the selected
\* encounter has no definition.
GenerationNeverPropagates ==
    fn_call.fn \in {"generate_site_encounter", "generate_overland_encounter"}
        => /\ ~fn_call.raised
           /\ (\/ fn_call.active_zone \notin DOMAIN zones_data
               \/ fn_call.active_zone \notin encounter_by_zone.Zone
               \/ (fn_call.fn = "generate_overland_encounter"
                       /\ fn_call.slot \notin AllWatches)
               \/ fn_call.caught)
                  => fn_call.enc = Blank

\* C9: a generator call that returns gives no encounter when the roll is above
\* the chance of the active zone (the base zone, or the overlay); an encounter
\* it populates has a positive cell for the active zone (and watch), and it
\* gives no encounter when no cell is positive.
OnlyPositiveCellsSelected ==
    (fn_call.fn \in {"generate_site_encounter", "generate_overland_encounter"}
        /\ ~fn_call.raised)
        => LET az == fn_call.active_zone
               site == fn_call.fn = "generate_site_encounter"
               positive ==
                   {e \in Range(encounter_by_zone.Encounter) :
                       /\ az \in encounter_by_zone.Zone
                       /\ site \/ fn_call.slot \in AllWatches
                       /\ IF site THEN encounter_by_zone.values[e][az] > 0
                          ELSE encounter_by_zone_and_watch.values[e][az][fn_call.slot] > 0}
           IN  /\ az \in {fn_call.zone, fn_call.overlay} \ {None}
               /\ fn_call.s.roll > ParsePercentage(zones_data[az].encounter_chance).value
                      => fn_call.enc = Blank
               /\ fn_call.enc.name # None => fn_call.enc.name \in positive
               /\ positive = {} => fn_call.enc = Blank

OverlayEncounterSelected ==
    /\ fn_call.fn = "generate_overland_encounter"
    /\ fn_call.zone = "Forest"
    /\ fn_call.active_zone = "Fog"
    /\ fn_call.slot = "Dusk"
    /\ fn_call.enc.name = "Bat"

\* C10: every encounter stored for a site slot or an overland watch is either
\* blank (name, time, description and habitat null, no sparks) or named; none
\* has a null name with another field set.
StoredEncountersWellFormed ==
    /\ \A slot \in DOMAIN generated_site_encounters :
           generated_site_encounters[slot].name = None
               => generated_site_encounters[slot] = Blank
    /\ \A watch \in DOMAIN generated_overland_encounters :
           generated_overland_encounters[watch].name = None
               => generated_overland_encounters[watch] = Blank

BlankAfterCaughtError ==
    /\ selected_site_zone = "Vault"
    /\ last_call.op = "regenerate_individual_site_encounter"
    /\ ~last_call.raised
    /\ generated_site_encounters["Current"] = Blank
    /\ generated_site_encounters["10 minutes"].name = "Bat"
    /\ selected_overland_overlay = "Vault"
    /\ "Dusk" \in DOMAIN generated_overland_encounters
    /\ generated_overland_encounters["Dusk"] = Blank

(***************************************************************************)
(* Single calls of utils.weighted_random_choice                            *)
(***************************************************************************)
CallWeightedRandomChoice(weights, u) ==
    LET r == WeightedRandomChoice(weights, u)
    IN  /\ fn_call = NoCall
        /\ fn_call' = [fn |-> "weighted_random_choice", weights |-> weights, u |-> u,
                       raised |-> ~r.ok, key |-> r.key]
        /\ UNCHANGED <<calendar_data, site_vars, overland_vars, last_call>>

\* SpecSelector: mappings of up to three keys in several insertion orders, with
\* negative, zero and positive weights, and draws over the whole range.
SelectorKeyOrders == {<<>>, <<"A">>, <<"A", "B">>, <<"B", "A">>, <<"A", "B", "C">>,
                      <<"C", "A", "B">>}

SelectorWeights == {0 - 1, 0, 1, 2}

SelectorMappings ==
    UNION {{[i \in DOMAIN keys |-> [key |-> keys[i], weight |-> ws[i]]] :
               ws \in [DOMAIN keys -> SelectorWeights]} : keys \in SelectorKeyOrders}

SelectorDraws == {0, 1, 25, 33, 34, 50, 66, 67, 75, 100}

NextSelector ==
    \/ \E weights \in SelectorMappings, u \in SelectorDraws :
           CallWeightedRandomChoice(weights, u)
    \/ Return

SpecSelector == Init /\ [][NextSelector]_vars

\* C11: the selector raises, and returns no key, for every mapping without a
\* strictly positive weight: empty, all zero, or only zero and negative weights.
SelectorRejectsEmptyDistribution ==
    (fn_call.fn = "weighted_random_choice"
        /\ \A i \in DOMAIN fn_call.weights : fn_call.weights[i].weight <= 0)
        => fn_call.raised /\ fn_call.key = None

NegativeAndZeroRejected ==
    /\ fn_call.fn = "weighted_random_choice"
    /\ fn_call.weights = <<[key |-> "A", weight |-> 0], [key |-> "B", weight |-> 0 - 1]>>
    /\ fn_call.raised

\* C12: for a mapping with a positive weight the selector returns the first
\* positive entry, in insertion order, whose cumulative weight reaches the draw:
\* the key has a positive weight, the draw lies in the stretch of length `weight`
\* that ends at the key's cumulative weight, and every positive key is returned
\* for some draw.
SelectorFollowsCumulativeWeights ==
    (fn_call.fn = "weighted_random_choice"
        /\ \E i \in DOMAIN fn_call.weights : fn_call.weights[i].weight > 0)
        => LET ws == fn_call.weights
               pos == {i \in DOMAIN ws : ws[i].weight > 0}
               total == SumWeights([i \in DOMAIN ws |->
                                       [key |-> ws[i].key,
                                        weight |-> IF i \in pos THEN ws[i].weight ELSE 0]])
               before(i) == SumWeights([j \in 1..(i - 1) |->
                                           [key |-> ws[j].key,
                                            weight |-> IF j \in pos THEN ws[j].weight ELSE 0]])
           IN  /\ ~fn_call.raised
               /\ \E i \in pos :
                      /\ ws[i].key = fn_call.key
                      /\ total * fn_call.u <= (before(i) + ws[i].weight) * 100
                      /\ \/ total * fn_call.u > before(i) * 100
                         \/ (fn_call.u = 0 /\ before(i) = 0)
               /\ \A i \in pos : \E u \in 0..100 : WeightedRandomChoice(ws, u).key = ws[i].key

SecondPositiveKeySelected ==
    /\ fn_call.fn = "weighted_random_choice"
    /\ fn_call.weights = <<[key |-> "C", weight |-> 1], [key |-> "A", weight |-> 0],
                           [key |-> "B", weight |-> 2]>>
    /\ fn_call.u = 34
    /\ fn_call.key = "B"

(***************************************************************************)
(* The calendar: load_calendar_file, save_calendar_date and the date       *)
(* arithmetic of utils.py.                                                 *)
(***************************************************************************)
\* The months of the calendar file.  "Autumn" is a season that the weather table
\* does not list.
calendar_months ==
    <<[name |-> "Deepwinter", season |-> "Winter", days |-> 3],
      [name |-> "Highsun", season |-> "Summer", days |-> 2],
      [name |-> "Harvest", season |-> "Autumn", days |-> 4]>>

\* The 'calendar' mapping of the file as load_calendar_file stores it.
Calendar(current_date, lunar_cycle_length, lunar_day, is_blood_moon, blood_moon_chance) ==
    [months |-> calendar_months,
     current_date |-> current_date,
     lunar_cycle_length |-> lunar_cycle_length,
     lunar_day |-> lunar_day,
     is_blood_moon |-> is_blood_moon,
     blood_moon_chance |-> blood_moon_chance]

\* A current_date mapping.
Date(month, day) == [month |-> month, day |-> day]

\* The dates the day buttons of calendar_content offer: one button per day of
\* every month.
ValidDates ==
    {dt \in [month : 1..Len(calendar_months), day : 1..4] :
        dt.day <= calendar_months[dt.month].days}

\* get_current_season: the season of the current month, "" when there is none.
GetCurrentSeason(calendar) ==
    IF calendar = <<>> \/ calendar[1].current_date = <<>> THEN ""
    ELSE LET month_idx == calendar[1].current_date[1].month
         IN  IF month_idx < 1 \/ month_idx > Len(calendar[1].months) THEN ""
             ELSE calendar[1].months[month_idx].season

\* The season overland_content selects when it renders: the calendar's season
\* when a date is set and the season is one of seasons_list.
SyncedSeason(calendar, selected) ==
    LET calendar_season == GetCurrentSeason(calendar)
    IN  IF calendar # <<>> /\ calendar[1].current_date # <<>>
           /\ calendar_season # "" /\ calendar_season \in Range(seasons_list)
        THEN calendar_season ELSE selected

\* save_calendar_date with the in-memory assignment undone when the file
\* operations raise.
SaveCalendarDateRollingBack(calendar, month, day, writes) ==
    IF calendar = <<>> THEN [ok |-> FALSE, calendar |-> calendar]
    ELSE [ok |-> writes,
          calendar |-> IF writes
                       THEN <<[calendar[1] EXCEPT !.current_date = <<Date(month, day)>>]>>
                       ELSE calendar]

\* save_calendar_date: False without a calendar; else the in-memory assignment,
\* then the read and the write of the file.  writes is FALSE when one of the
\* file operations raises: the except clause logs and returns False, after the
\* assignment.
SaveCalendarDate(calendar, month, day, writes) ==
    IF calendar = <<>> THEN [ok |-> FALSE, calendar |-> calendar]
    ELSE [ok |-> writes,
          calendar |-> <<[calendar[1] EXCEPT !.current_date = <<Date(month, day)>>]>>]

\* The body of the while loop of advance_calendar_date, with the month wrap
\* dropped: the day overflows into the same month.
RECURSIVE CalendarOverflowKeepingMonth(_, _, _)
CalendarOverflowKeepingMonth(months, month, day) ==
    LET m == IF month < 1 \/ month > Len(months) THEN 1 ELSE month
    IN  IF day <= months[m].days THEN Date(m, day)
        ELSE CalendarOverflowKeepingMonth(months, m, day - months[m].days)

\* An overflow loop that leaves a month on its last day already.
RECURSIVE CalendarOverflowOnLastDay(_, _, _)
CalendarOverflowOnLastDay(months, month, day) ==
    LET m == IF month < 1 \/ month > Len(months) THEN 1 ELSE month
        days_in_month == months[m].days
    IN  IF day < days_in_month THEN Date(m, day)
        ELSE CalendarOverflowOnLastDay(months, IF m + 1 > Len(months) THEN 1 ELSE m + 1,
                                       day - days_in_month)

\* The while loop of advance_calendar_date.
RECURSIVE CalendarOverflow(_, _, _)
CalendarOverflow(months, month, day) ==
    LET m == IF month < 1 \/ month > Len(months) THEN 1 ELSE month
        days_in_month == months[m].days
    IN  IF day <= days_in_month THEN Date(m, day)
        ELSE CalendarOverflow(months, IF m + 1 > Len(months) THEN 1 ELSE m + 1,
                              day - days_in_month)

\* advance_calendar_date without the overflow loop.
AdvanceCalendarDateWithoutOverflow(calendar, days, writes) ==
    IF calendar = <<>> \/ calendar[1].current_date = <<>> \/ calendar[1].months = <<>>
    THEN [ok |-> FALSE, calendar |-> calendar]
    ELSE LET current_date == calendar[1].current_date[1]
         IN  SaveCalendarDate(calendar, current_date.month, current_date.day + days, writes)

\* advance_calendar_date: False without a calendar, a date or months; else the
\* date moved forward and the result of saving it.
AdvanceCalendarDate(calendar, days, writes) ==
    IF calendar = <<>> \/ calendar[1].current_date = <<>> \/ calendar[1].months = <<>>
    THEN [ok |-> FALSE, calendar |-> calendar]
    ELSE LET current_date == calendar[1].current_date[1]
             new_date == CalendarOverflow(calendar[1].months, current_date.month,
                                          current_date.day + days)
         IN  SaveCalendarDate(calendar, new_date.month, new_date.day, writes)

\* What a calendar call leaves in last_call: the date before it, its argument
\* and its return value.
CalendarCall(op, days, ok) ==
    [op |-> op, raised |-> FALSE, kept |-> FALSE, days |-> days, ok |-> ok,
     before |-> IF calendar_data = <<>> THEN <<>> ELSE calendar_data[1].current_date]

\* What a call that saves a date leaves in last_call: as CalendarCall, with the
\* date passed to save_calendar_date by the caller (month 0 when the callee
\* computes it) and whether the file operations went through.
SaveCall(op, days, ok, month, day, writes) ==
    [op |-> op, raised |-> FALSE, kept |-> FALSE, days |-> days, ok |-> ok,
     before |-> IF calendar_data = <<>> THEN <<>> ELSE calendar_data[1].current_date,
     month |-> month, day |-> day, writes |-> writes]

\* main() with a calendar file configured: load_calendar_file, then the first
\* render of overland_content.
LoadCalendarFile(calendar) ==
    /\ calendar_data = <<>>
    /\ last_call.op = "main"
    /\ calendar_data' = <<calendar>>
    /\ selected_overland_season' = SyncedSeason(<<calendar>>, selected_overland_season)
    /\ last_call' = CalendarCall("load_calendar_file", 0, TRUE)
    /\ UNCHANGED <<generated_overland_days, generated_overland_weather,
                   generated_overland_encounters, generated_overland_rest_info,
                   prior_day_weather, selected_overland_zone,
                   selected_overland_overlay, site_vars, fn_call>>

\* A day button of the Calendar tab: make_click_handler's handler, and the
\* refresh of overland_content it ends with.
ClickCalendarDay(m, d, writes) ==
    LET r == SaveCalendarDate(calendar_data, m, d, writes)
    IN  /\ calendar_data # <<>>
        /\ m \in 1..Len(calendar_data[1].months)
        /\ d \in 1..calendar_data[1].months[m].days
        /\ calendar_data' = r.calendar
        /\ selected_overland_season' = SyncedSeason(calendar_data', selected_overland_season)
        /\ last_call' = SaveCall("save_calendar_date", 0, r.ok, m, d, writes)
        /\ UNCHANGED <<generated_overland_days, generated_overland_weather,
                       generated_overland_encounters, generated_overland_rest_info,
                       prior_day_weather, selected_overland_zone,
                       selected_overland_overlay, site_vars, fn_call>>

\* A call of advance_calendar_date(days).
CallAdvanceCalendarDate(days, writes) ==
    LET r == AdvanceCalendarDate(calendar_data, days, writes)
    IN  /\ calendar_data # <<>>
        /\ calendar_data' = r.calendar
        /\ last_call' = SaveCall("advance_calendar_date", days, r.ok, 0, 0, writes)
        /\ UNCHANGED <<site_vars, overland_vars, fn_call>>

MaxAdvance == 10

\* The calendar files of the session: no date or any date of the calendar, no
\* lunar tracking.
CalendarFiles == {Calendar(dt, 0, <<>>, FALSE, 0) : dt \in {<<>>} \cup {<<v>> : v \in ValidDates}}

NextCalendar ==
    \/ \E calendar \in CalendarFiles : LoadCalendarFile(calendar)
    \/ \E dt \in ValidDates, writes \in BOOLEAN : ClickCalendarDay(dt.month, dt.day, writes)
    \/ \E days \in 0..MaxAdvance, writes \in BOOLEAN : CallAdvanceCalendarDate(days, writes)

SpecCalendar == Init /\ [][NextCalendar]_vars

\* The number of days of a month of the calendar.
DaysOf(month) == calendar_months[month].days

\* C13: advancing by one day from the last day of a month gives day 1 of the next
\* month, from the last day of the final month it gives month 1 day 1, and from
\* any other day it gives the next day of the same month.
AdvanceByOneRollsOver ==
    (last_call.op = "advance_calendar_date" /\ last_call.days = 1 /\ last_call.before # <<>>)
        => LET before == last_call.before[1]
               after == calendar_data[1].current_date[1]
           IN  /\ last_call.ok = last_call.writes
               /\ (before.day = DaysOf(before.month) /\ before.month < Len(calendar_months))
                      => after = Date(before.month + 1, 1)
               /\ (before.day = DaysOf(before.month) /\ before.month = Len(calendar_months))
                      => after = Date(1, 1)
               /\ before.day < DaysOf(before.month)
                      => after = Date(before.month, before.day + 1)

YearRolledOver ==
    /\ last_call.op = "advance_calendar_date"
    /\ last_call.days = 1
    /\ last_call.before = <<Date(3, 4)>>
    /\ calendar_data[1].current_date = <<Date(1, 1)>>

\* C14: after any sequence of day clicks and advances by N >= 0 days, from a valid
\* or unset date, a set date has its month in 1..len(months) and its day in
\* 1..days of that month.
CalendarDateValid ==
    (calendar_data # <<>> /\ calendar_data[1].current_date # <<>>)
        => LET current_date == calendar_data[1].current_date[1]
           IN  /\ current_date.month \in 1..Len(calendar_data[1].months)
               /\ current_date.day \in 1..calendar_data[1].months[current_date.month].days

AdvancedPastTheYear ==
    /\ last_call.op = "advance_calendar_date"
    /\ last_call.days = 10
    /\ last_call.before = <<Date(2, 2)>>
    /\ calendar_data[1].current_date = <<Date(3, 1)>>

(***************************************************************************)
(* The lunar cycle: the moon phase functions of utils.py and the lunar     *)
(* mutations.  random.randint(1, cycle_length) is the input init and       *)
(* random.randint(1, 100) is the input roll.                               *)
(***************************************************************************)
MOON_PHASES ==
    <<"New Moon", "Waxing Crescent", "First Quarter", "Waxing Gibbous",
      "Full Moon", "Waning Gibbous", "Last Quarter", "Waning Crescent">>

FULL_MOON_PHASE_INDEX == 4

\* get_moon_phase_for_day: the day clamped into the cycle, then
\* int((lunar_day - 1) / (cycle_length / 8.0)) capped at 7.  The float quotient
\* is 8 * (lunar_day - 1) / cycle_length, whose integer part the integer division
\* gives.
GetMoonPhaseForDay(lunar_day, cycle_length) ==
    LET clamped == Min(Max(lunar_day, 1), cycle_length)
        phase_index == Min((8 * (clamped - 1)) \div cycle_length, 7)
    IN  [name |-> MOON_PHASES[phase_index + 1],
         phase_index |-> phase_index,
         is_full_moon |-> phase_index = FULL_MOON_PHASE_INDEX]

\* get_phase_start_day with the product rounded down instead of up.
GetPhaseStartDayRoundingDown(phase_index, cycle_length) ==
    ((phase_index * cycle_length) \div 8) + 1

\* get_phase_start_day: math.ceil(phase_index * cycle_length / 8.0) + 1.
GetPhaseStartDay(phase_index, cycle_length) ==
    ((phase_index * cycle_length + 7) \div 8) + 1

\* The storage call every lunar mutation ends with: the lunar day and the
\* blood-moon flag replace those of the calendar in memory.
SaveLunarData(calendar, lunar_day, is_blood_moon) ==
    <<[calendar[1] EXCEPT !.lunar_day = <<lunar_day>>, !.is_blood_moon = is_blood_moon]>>

\* calendar.get('lunar_cycle_length', 27).
CycleLength(calendar) ==
    IF calendar[1].lunar_cycle_length = 0 THEN 27 ELSE calendar[1].lunar_cycle_length

\* The outcome of a lunar mutation: its return value, the day it started from
\* (the new day for the mutations that read no old day), the number of
\* blood-moon rolls it made and what it passed to storage.
LunarOutcome(ok, old_day, rolls, lunar_day, is_blood_moon) ==
    [ok |-> ok, old_day |-> old_day, rolls |-> rolls, lunar_day |-> lunar_day,
     is_blood_moon |-> is_blood_moon]

\* The blood-moon branch of advance_lunar_day and adjust_lunar_day, rolling on
\* every day of the full moon.
BloodMoonRollingEveryFullDay(old_day, lunar_day, cycle_length, is_blood_moon, chance, roll) ==
    IF GetMoonPhaseForDay(lunar_day, cycle_length).is_full_moon
    THEN LunarOutcome(TRUE, old_day, 1, lunar_day, roll <= chance)
    ELSE LunarOutcome(TRUE, old_day, 0, lunar_day, FALSE)

\* The blood-moon branch of advance_lunar_day and adjust_lunar_day: a roll on
\* entering the full moon, the flag cleared outside it, kept inside it.
BloodMoonOnEntering(old_day, lunar_day, cycle_length, is_blood_moon, chance, roll) ==
    LET old_phase == GetMoonPhaseForDay(old_day, cycle_length)
        new_phase == GetMoonPhaseForDay(lunar_day, cycle_length)
    IN  IF new_phase.is_full_moon /\ ~old_phase.is_full_moon
        THEN LunarOutcome(TRUE, old_day, 1, lunar_day, roll <= chance)
        ELSE IF ~new_phase.is_full_moon
             THEN LunarOutcome(TRUE, old_day, 0, lunar_day, FALSE)
             ELSE LunarOutcome(TRUE, old_day, 0, lunar_day, is_blood_moon)

\* while lunar_day > cycle_length: lunar_day -= cycle_length.
RECURSIVE CycleOverflow(_, _)
CycleOverflow(lunar_day, cycle_length) ==
    IF lunar_day > cycle_length THEN CycleOverflow(lunar_day - cycle_length, cycle_length)
    ELSE lunar_day

\* advance_lunar_day up to the storage call.
AdvanceLunarDay(calendar, days, init, roll) ==
    LET cycle_length == CycleLength(calendar)
        old_day == IF calendar[1].lunar_day = <<>> THEN init ELSE calendar[1].lunar_day[1]
    IN  BloodMoonOnEntering(old_day, CycleOverflow(old_day + days, cycle_length),
                            cycle_length, calendar[1].is_blood_moon,
                            calendar[1].blood_moon_chance, roll)

\* adjust_lunar_day up to the storage call: one wrap backwards or forwards.
AdjustLunarDay(calendar, delta, roll) ==
    LET cycle_length == CycleLength(calendar)
        old_day == IF calendar[1].lunar_day = <<>> THEN 1 ELSE calendar[1].lunar_day[1]
        moved == old_day + delta
        lunar_day == IF moved < 1 THEN cycle_length + moved
                     ELSE IF moved > cycle_length THEN moved - cycle_length
                     ELSE moved
    IN  BloodMoonOnEntering(old_day, lunar_day, cycle_length, calendar[1].is_blood_moon,
                            calendar[1].blood_moon_chance, roll)

\* set_lunar_day_to_phase up to the storage call; False for an index outside 0..7.
SetLunarDayToPhase(calendar, phase_index, roll) ==
    IF phase_index < 0 \/ phase_index > 7
    THEN LunarOutcome(FALSE, 0, 0, 0, calendar[1].is_blood_moon)
    ELSE LET lunar_day == GetPhaseStartDay(phase_index, CycleLength(calendar))
         IN  IF phase_index = FULL_MOON_PHASE_INDEX
             THEN LunarOutcome(TRUE, lunar_day, 1, lunar_day,
                               roll <= calendar[1].blood_moon_chance)
             ELSE LunarOutcome(TRUE, lunar_day, 0, lunar_day, FALSE)

\* initialize_lunar_day up to the storage call, for a calendar without a lunar day.
InitializeLunarDay(calendar, init, roll) ==
    IF GetMoonPhaseForDay(init, CycleLength(calendar)).is_full_moon
    THEN LunarOutcome(TRUE, init, 1, init, roll <= calendar[1].blood_moon_chance)
    ELSE LunarOutcome(TRUE, init, 0, init, FALSE)

\* What a lunar mutation leaves in last_call, the roll kept only when it was made.
LunarCall(op, arg, roll, r) ==
    [op |-> op, raised |-> FALSE, kept |-> FALSE, arg |-> arg,
     roll |-> IF r.rolls = 0 THEN 0 ELSE roll, ok |-> r.ok, old_day |-> r.old_day,
     old_blood_moon |-> calendar_data[1].is_blood_moon, rolls |-> r.rolls,
     lunar_day |-> r.lunar_day, is_blood_moon |-> r.is_blood_moon]

\* A lunar mutation as a step: the outcome stored when the mutation reached the
\* storage call.
LunarStep(op, arg, roll, r) ==
    /\ calendar_data' = IF r.ok THEN SaveLunarData(calendar_data, r.lunar_day, r.is_blood_moon)
                        ELSE calendar_data
    /\ last_call' = LunarCall(op, arg, roll, r)
    /\ UNCHANGED <<site_vars, overland_vars, fn_call>>

\* A call of advance_lunar_day(days).
CallAdvanceLunarDay(days, init, roll) ==
    /\ calendar_data # <<>>
    /\ init \in 1..CycleLength(calendar_data)
    /\ LunarStep("advance_lunar_day", days, roll,
                 AdvanceLunarDay(calendar_data, days, init, roll))

\* A call of adjust_lunar_day(delta); the - and + buttons pass -1 and 1.
CallAdjustLunarDay(delta, roll) ==
    /\ calendar_data # <<>>
    /\ LunarStep("adjust_lunar_day", delta, roll, AdjustLunarDay(calendar_data, delta, roll))

\* A phase button: set_lunar_day_to_phase(phase_index).
CallSetLunarDayToPhase(phase_index, roll) ==
    /\ calendar_data # <<>>
    /\ LunarStep("set_lunar_day_to_phase", phase_index, roll,
                 SetLunarDayToPhase(calendar_data, phase_index, roll))

\* The render of calendar_content for a calendar with a cycle length and no lunar
\* day: initialize_lunar_day.
CallInitializeLunarDay(init, roll) ==
    /\ calendar_data # <<>>
    /\ calendar_data[1].lunar_cycle_length # 0
    /\ calendar_data[1].lunar_day = <<>>
    /\ init \in 1..CycleLength(calendar_data)
    /\ LunarStep("initialize_lunar_day", 0, roll,
                 InitializeLunarDay(calendar_data, init, roll))

\* A call of get_moon_phase_for_day(lunar_day, cycle_length).
CallGetMoonPhaseForDay(lunar_day, cycle_length) ==
    LET phase == GetMoonPhaseForDay(lunar_day, cycle_length)
    IN  /\ fn_call = NoCall
        /\ fn_call' = [fn |-> "get_moon_phase_for_day", lunar_day |-> lunar_day,
                       cycle_length |-> cycle_length, name |-> phase.name,
                       phase_index |-> phase.phase_index,
                       is_full_moon |-> phase.is_full_moon]
        /\ UNCHANGED <<calendar_data, site_vars, overland_vars, last_call>>

(***************************************************************************)
(* The lunar session: a calendar file with a cycle length, then any        *)
(* sequence of lunar mutations.                                            *)
(***************************************************************************)
LunarCycles == {3, 8, 11, 27}

BloodMoonRolls == {1, 10, 11, 100}

MaxLunarAdvance == 30

MaxLunarDelta == 12

LunarAdvances == {0, 1, 2, MaxLunarAdvance}

LunarDeltas == {0 - MaxLunarDelta, 0 - 1, 1, MaxLunarDelta}

\* The calendar files with lunar tracking: no lunar day yet, or the first day.
LunarFiles == {Calendar(<<>>, c, d, FALSE, 10) : c \in LunarCycles, d \in {<<>>, <<1>>}}

\* The stored lunar day is within MaxLunarDelta of the cycle.
LunarDayNear ==
    IF calendar_data[1].lunar_day = <<>> THEN TRUE
    ELSE calendar_data[1].lunar_day[1] \in
             (0 - MaxLunarDelta)..(CycleLength(calendar_data) + MaxLunarDelta)

\* The values random.randint(1, cycle_length) can take where it is called: with a
\* calendar that has no lunar day.
LunarInits ==
    IF calendar_data = <<>> THEN {}
    ELSE IF calendar_data[1].lunar_day = <<>> THEN 1..CycleLength(calendar_data)
    ELSE {1}

NextLunar ==
    \/ \E calendar \in LunarFiles : LoadCalendarFile(calendar)
    \/ \E days \in LunarAdvances, init \in LunarInits, roll \in BloodMoonRolls :
           CallAdvanceLunarDay(days, init, roll)
    \/ \E delta \in LunarDeltas, roll \in BloodMoonRolls :
           calendar_data # <<>> /\ LunarDayNear /\ CallAdjustLunarDay(delta, roll)
    \/ \E phase_index \in (0 - 1)..8, roll \in BloodMoonRolls :
           CallSetLunarDayToPhase(phase_index, roll)
    \/ \E init \in LunarInits, roll \in BloodMoonRolls : CallInitializeLunarDay(init, roll)

SpecLunar == Init /\ [][NextLunar]_vars

MaxLunarDay == 30

PhaseCycles == {3, 8, 27, 28}

NextPhase ==
    \/ \E lunar_day \in 0..MaxLunarDay, cycle_length \in PhaseCycles :
           CallGetMoonPhaseForDay(lunar_day, cycle_length)
    \/ Return

SpecPhase == Init /\ [][NextPhase]_vars

\* The last step was a lunar mutation that reached the storage call.
LunarOps == {"advance_lunar_day", "adjust_lunar_day", "set_lunar_day_to_phase",
             "initialize_lunar_day"}

Stored == last_call.op \in LunarOps /\ last_call.ok

\* C15: with lunar tracking enabled, every lunar mutation passes to storage a lunar
\* day in 1..lunar_cycle_length, and an advance or an adjustment passes the old day
\* plus the amount, modulo the cycle length.
LunarDayInCycle ==
    Stored => LET cycle_length == CycleLength(calendar_data)
              IN  /\ last_call.lunar_day \in 1..cycle_length
                  /\ last_call.op \in {"advance_lunar_day", "adjust_lunar_day"}
                         => (last_call.lunar_day - last_call.old_day - last_call.arg)
                                % cycle_length = 0

\* C16: an advance or adjustment from a day outside the full moon to a day inside
\* it makes exactly one blood-moon roll, and the blood moon is active iff the roll
\* is at most blood_moon_chance; one that starts and ends inside the full moon
\* makes no roll and keeps the flag.
BloodMoonRolledOnEntering ==
    (Stored /\ last_call.op \in {"advance_lunar_day", "adjust_lunar_day"})
        => LET cycle_length == CycleLength(calendar_data)
               old_full == GetMoonPhaseForDay(last_call.old_day, cycle_length).is_full_moon
               new_full == GetMoonPhaseForDay(last_call.lunar_day, cycle_length).is_full_moon
           IN  /\ calendar_data[1].is_blood_moon = last_call.is_blood_moon
               /\ (~old_full /\ new_full)
                      => /\ last_call.rolls = 1
                         /\ last_call.is_blood_moon
                                = (last_call.roll <= calendar_data[1].blood_moon_chance)
               /\ (old_full /\ new_full)
                      => /\ last_call.rolls = 0
                         /\ last_call.is_blood_moon = last_call.old_blood_moon

BloodMoonKeptInsideFullMoon ==
    /\ Stored
    /\ last_call.op = "advance_lunar_day"
    /\ calendar_data[1].lunar_cycle_length = 27
    /\ last_call.old_day = 15
    /\ last_call.lunar_day = 16
    /\ last_call.rolls = 0
    /\ calendar_data[1].is_blood_moon

\* C17: after a lunar mutation whose resulting day is outside the full moon, the
\* blood-moon flag it stores is false.
BloodMoonOnlyAtFullMoon ==
    Stored => (last_call.is_blood_moon
                  => GetMoonPhaseForDay(last_call.lunar_day,
                                        CycleLength(calendar_data)).is_full_moon)

\* The first part of C18 for one call: the resulting day has phase p and the day
\* before it has phase p - 1.
LandsOnFirstDay ==
    LET cycle_length == CycleLength(calendar_data)
    IN  /\ GetMoonPhaseForDay(last_call.lunar_day, cycle_length).phase_index = last_call.arg
        /\ last_call.arg > 0
               => GetMoonPhaseForDay(last_call.lunar_day - 1, cycle_length).phase_index
                      = last_call.arg - 1

\* The second part of C18 for one call: a roll iff p is the full moon, the flag
\* false otherwise.
RerolledIffFullMoon ==
    /\ last_call.rolls = 1 <=> last_call.arg = FULL_MOON_PHASE_INDEX
    /\ last_call.arg = FULL_MOON_PHASE_INDEX
           => last_call.is_blood_moon = (last_call.roll <= calendar_data[1].blood_moon_chance)
    /\ last_call.arg # FULL_MOON_PHASE_INDEX => ~last_call.is_blood_moon
    /\ calendar_data[1].lunar_day = <<last_call.lunar_day>>
    /\ calendar_data[1].is_blood_moon = last_call.is_blood_moon

\* C18 as stated: for every cycle length, set_lunar_day_to_phase(p) lands on the
\* first day of phase p and re-rolls the blood moon iff p is the full moon.
SetToPhaseLandsOnFirstDayAnyCycle ==
    (Stored /\ last_call.op = "set_lunar_day_to_phase")
        => LandsOnFirstDay /\ RerolledIffFullMoon

\* C18, amended: for every cycle length of at least 8 days,
\* set_lunar_day_to_phase(p) lands on the first day of phase p; for every cycle
\* length it re-rolls the blood moon iff p is the full moon, and the flag is false
\* otherwise.
SetToPhaseLandsOnFirstDay ==
    (Stored /\ last_call.op = "set_lunar_day_to_phase")
        => /\ CycleLength(calendar_data) >= 8 => LandsOnFirstDay
           /\ RerolledIffFullMoon

SetToFullMoonOfElevenDays ==
    /\ Stored
    /\ last_call.op = "set_lunar_day_to_phase"
    /\ last_call.arg = FULL_MOON_PHASE_INDEX
    /\ calendar_data[1].lunar_cycle_length = 11
    /\ calendar_data[1].lunar_day = <<7>>
    /\ calendar_data[1].is_blood_moon

\* floor(n / (cycle_length / 8)): the greatest k with k * cycle_length <= 8 * n.
FloorPhase(n, cycle_length) ==
    CHOOSE k \in 0..(8 * n) : k * cycle_length <= 8 * n /\ (k + 1) * cycle_length > 8 * n

\* C19: the phase of a day of the cycle is floor((day - 1) / (cycle_length / 8))
\* capped at 7, index 4 is "Full Moon", and day 14 of a 27-day cycle is the Full
\* Moon (phase_index 4, is_full_moon true).
PhaseMatchesDocumentedExample ==
    fn_call.fn = "get_moon_phase_for_day"
        => /\ fn_call.lunar_day \in 1..fn_call.cycle_length
                  => fn_call.phase_index
                         = Min(FloorPhase(fn_call.lunar_day - 1, fn_call.cycle_length), 7)
           /\ fn_call.is_full_moon <=> fn_call.phase_index = 4
           /\ fn_call.phase_index = 4 <=> fn_call.name = "Full Moon"
           /\ (fn_call.lunar_day = 14 /\ fn_call.cycle_length = 27)
                  => fn_call.phase_index = 4 /\ fn_call.is_full_moon

\* C20: whenever rest-info is stored, its rest-DC list is that of the selected
\* season, its weather modifiers are exactly the rules whose effect is among the
\* effects of the stored weather, and its situational list is the whole list.
RestInfoFollowsSeasonAndWeather ==
    generated_overland_rest_info # <<>>
        => LET rest_info == generated_overland_rest_info[1]
               effects == IF generated_overland_weather = <<>> THEN {}
                          ELSE Range(generated_overland_weather[1].effects)
           IN  /\ rest_info.rest_dcs
                      = Get(restinfo_data.rest_DCs, selected_overland_season, <<>>)
               /\ rest_info.weather_modifiers
                      = SelectSeq(restinfo_data.weather_modifiers,
                                  LAMBDA m : m.effect \in effects)
               /\ rest_info.situational_modifiers = restinfo_data.situational_modifiers

\* C21: regenerating one watch leaves the day counter, the weather, the rest-info
\* and the encounters of the other five watches as they were.
RegenerateWatchFrame ==
    [][last_call'.op = "regenerate_individual_overland_encounter"
          => /\ generated_overland_days' = generated_overland_days
             /\ generated_overland_weather' = generated_overland_weather
             /\ generated_overland_rest_info' = generated_overland_rest_info
             /\ DOMAIN generated_overland_encounters' = DOMAIN generated_overland_encounters
             /\ \E watch \in DOMAIN generated_overland_encounters :
                    \A other \in DOMAIN generated_overland_encounters \ {watch} :
                        generated_overland_encounters'[other]
                            = generated_overland_encounters[other]]_vars

OneWatchRegenerated ==
    /\ last_call.op = "regenerate_individual_overland_encounter"
    /\ ~last_call.raised
    /\ generated_overland_weather # <<>>
    /\ IsEncounter(generated_overland_encounters["Dusk"])
    /\ \A other \in AllWatches \ {"Dusk"} : ~IsEncounter(generated_overland_encounters[other])

\* C22: regenerating the weather alone stores a weather generated for the selected
\* season, recomputes the rest-info from it, and leaves the day counter and the six
\* watch encounters as they were.
RegenerateWeatherRecomputesRestInfo ==
    [][last_call'.op = "regenerate_individual_weather"
          => /\ generated_overland_days' = generated_overland_days
             /\ generated_overland_encounters' = generated_overland_encounters
             /\ selected_overland_season' = selected_overland_season
             /\ \E wsample \in WeatherSampleSpace :
                    generated_overland_weather' =
                        <<GenerateWeather(selected_overland_season, generated_overland_weather,
                                          weather_by_season, weathers_data, wsample).weather>>
             /\ generated_overland_rest_info'
                    = <<RestInfo(selected_overland_season, generated_overland_weather')>>]_vars

WeatherRegeneratedInNewSeason ==
    /\ last_call.op = "regenerate_individual_weather"
    /\ selected_overland_season = "Winter"
    /\ generated_overland_weather = <<[name |-> "Gale", effects |-> <<>>]>>
    /\ generated_overland_rest_info[1].rest_dcs = restinfo_data.rest_DCs["Winter"]

\* C23: regenerate-day leaves the day counter as it was and, as new-day does,
\* leaves the session with a newly generated weather, an encounter for each of
\* the six watches and the rest-info derived from that weather.
RegenerateDayReplacesAll ==
    [][last_call'.op = "overland_regenerate_day"
          => /\ generated_overland_days' = generated_overland_days
             /\ \E wsample \in WeatherSampleSpace :
                    generated_overland_weather' =
                        <<GenerateWeather(selected_overland_season, generated_overland_weather,
                                          weather_by_season, weathers_data, wsample).weather>>
             /\ DOMAIN generated_overland_encounters' = AllWatches
             /\ generated_overland_rest_info'
                    = <<RestInfo(selected_overland_season, generated_overland_weather')>>]_vars

\* C24: site regenerate-turn leaves the elapsed minutes and the timer list as they
\* were and leaves the window with a generated encounter in each of the six slots,
\* Current included.
RegenerateTurnReplacesWindow ==
    [][last_call'.op = "site_regenerate_turn"
          => /\ generated_site_time' = generated_site_time
             /\ generated_site_timers' = generated_site_timers
             /\ DOMAIN generated_site_encounters' = AllSlots
             /\ \A slot \in AllSlots :
                    \E s \in SiteSampleSpace :
                        generated_site_encounters'[slot]
                            = site_encounter[selected_site_zone][slot][s].enc]_vars

\* C25: site reset leaves the elapsed minutes at 0, the timer list empty and the
\* window with all six slots: Current without an encounter, the other five
\* generated by the call.
ResetPopulatesWindow ==
    [][last_call'.op = "site_reset"
          => /\ generated_site_time' = 0
             /\ generated_site_timers' = <<>>
             /\ DOMAIN generated_site_encounters' = AllSlots
             /\ generated_site_encounters'["Current"] = NoEncounter
             /\ \A slot \in AllSlots \ {"Current"} :
                    \E s \in SiteSampleSpace :
                        generated_site_encounters'[slot]
                            = site_encounter[selected_site_zone][slot][s].enc]_vars

\* C26: add-timer puts exactly one timer into the list, with the given name and the
\* given duration (0 for a negative one); the list is then ascending by remaining
\* duration and, the new timer taken out, is the list of before.
AddTimerInsertsSorted ==
    [][last_call'.op = "site_add_timer"
          => LET old == generated_site_timers
                 new == generated_site_timers'
                 timer == [name |-> last_call'.name,
                           remaining_duration |-> IF last_call'.duration < 0 THEN 0
                                                  ELSE last_call'.duration]
             IN  /\ Len(new) = Len(old) + 1
                 /\ \A i \in 1..(Len(new) - 1) :
                        new[i].remaining_duration <= new[i + 1].remaining_duration
                 /\ \E j \in DOMAIN new :
                        /\ new[j] = timer
                        /\ SubSeq(new, 1, j - 1) \o SubSeq(new, j + 1, Len(new)) = old]_vars

NegativeTimerAddedInFront ==
    /\ last_call.op = "site_add_timer"
    /\ last_call.duration < 0
    /\ last_call.name = "ward"
    /\ generated_site_timers = <<[name |-> "ward", remaining_duration |-> 0],
                                 [name |-> "torch", remaining_duration |-> 10],
                                 [name |-> "torch", remaining_duration |-> 20]>>

\* C27: delete-timer with an index below 0 or not below the length of the list
\* raises nothing and leaves the timer list and the rest of the site state as
\* they were; with an index in range it removes the timer at that position and
\* keeps the others in their order.
DeleteTimerChecksIndex ==
    [][last_call'.op = "site_delete_timer"
          => LET old == generated_site_timers
                 new == generated_site_timers'
                 i == last_call'.timer_index
             IN  /\ ~last_call'.raised
                 /\ generated_site_time' = generated_site_time
                 /\ generated_site_encounters' = generated_site_encounters
                 /\ site_expansions' = site_expansions
                 /\ selected_site_zone' = selected_site_zone
                 /\ IF i < 0 \/ i >= Len(old)
                    THEN new = old
                    ELSE /\ Len(new) = Len(old) - 1
                         /\ \A j \in DOMAIN new :
                                new[j] = old[IF j <= i THEN j ELSE j + 1]]_vars

NegativeIndexDeletesNothing ==
    /\ last_call.op = "site_delete_timer"
    /\ last_call.timer_index < 0
    /\ last_call.before = 2
    /\ Len(generated_site_timers) = 2

\* C28: when the file operations of a date change fail, by a day click or by an
\* advance from a set date, the call returns False, raises nothing, and the
\* in-memory current date is the date the change was to give.
FailedSaveKeepsNewDate ==
    [][(/\ last_call'.op \in {"save_calendar_date", "advance_calendar_date"}
        /\ ~last_call'.writes
        /\ last_call'.op = "advance_calendar_date" => last_call'.before # <<>>)
          => /\ ~last_call'.ok
             /\ ~last_call'.raised
             /\ IF last_call'.op = "save_calendar_date"
                THEN calendar_data'[1].current_date
                         = <<Date(last_call'.month, last_call'.day)>>
                ELSE calendar_data'
                         = AdvanceCalendarDate(calendar_data, last_call'.days, TRUE).calendar]_vars

AdvancedInMemoryOnly ==
    /\ last_call.op = "advance_calendar_date"
    /\ ~last_call.writes
    /\ ~last_call.ok
    /\ last_call.days = 1
    /\ last_call.before = <<Date(3, 4)>>
    /\ calendar_data[1].current_date = <<Date(1, 1)>>

(***************************************************************************)
(* The expansion flags of the Site tab.  The New Turn, Regenerate All and  *)
(* Reset buttons call reset_expansion_states("site") first, which writes   *)
(* to the keys "expanded_site_<slot>" only when they are in the storage;   *)
(* nothing puts them there (toggle_expand keeps its flags in the dict      *)
(* 'site_expansions'), so the call changes nothing.                        *)
(***************************************************************************)
MaxExpandTime == 30

NextExpand ==
    \/ \E samples \in SiteRuns : SiteReset(samples)
    \/ \E sample \in SiteSamples :
           generated_site_time < MaxExpandTime /\ SiteNewTurn(sample)
    \/ \E label \in {"10 minutes", "30 minutes", "50 minutes"} : ToggleExpand(label)
    \/ \E zone \in {"Cave", "Crypt"} : SelectSiteZone(zone)

SpecExpand == Init /\ [][NextExpand]_vars

\* C29: a site new-turn moves the expansion flags as it moves the encounters (the
\* flag of +10 to Current, ..., of +50 to +40) and leaves the flag of +50
\* collapsed, so that an expanded encounter is still expanded in the slot that
\* holds it after the call.
ExpansionFollowsEncounter ==
    [][last_call'.op = "site_new_turn"
          => /\ \A i \in 1..5 :
                    Get(site_expansions', SITE_TIME_SLOTS[i], FALSE)
                        = Get(site_expansions, SITE_TIME_SLOTS[i + 1], FALSE)
             /\ ~Get(site_expansions', "50 minutes", FALSE)
             /\ \A i \in 1..5 :
                    (/\ SITE_TIME_SLOTS[i + 1] \in DOMAIN generated_site_encounters
                     /\ Get(site_expansions, SITE_TIME_SLOTS[i + 1], FALSE))
                        => /\ SITE_TIME_SLOTS[i] \in DOMAIN generated_site_encounters'
                           /\ generated_site_encounters'[SITE_TIME_SLOTS[i]]
                                  = generated_site_encounters[SITE_TIME_SLOTS[i + 1]]
                           /\ Get(site_expansions', SITE_TIME_SLOTS[i], FALSE)]_vars

(***************************************************************************)
(* Weather objects.  The session actions above hold a weather by value;    *)
(* here the Weather instances and the effects lists are objects of a heap, *)
(* so that sharing is visible.  heap.objects[o] is instance o: its name    *)
(* and the index of its effects list in heap.lists; heap.current is        *)
(* config.generated_overland_weather, <<>> or <<o>>.  The lists loaded     *)
(* into weathers_data come first in heap.lists, in file order.             *)
(***************************************************************************)
weather_file_order == <<"Rain", "Snow">>

EmptyHeap ==
    [objects |-> <<>>,
     lists |-> [i \in DOMAIN weather_file_order |-> weathers_data[weather_file_order[i]].effects],
     current |-> <<>>]

\* The name and the effects of instance o, as a Weather value.
ValueOf(heap, o) ==
    [name |-> heap.objects[o].name, effects |-> heap.lists[heap.objects[o].effects]]

\* generate_overland_weather with the generation run on the stored instance
\* instead of a new Weather(): the assignments to self change the previous
\* day's object.
GenerateOverlandWeatherInPlace(heap, season, s) ==
    LET previous_weather == IF heap.current = <<>> THEN <<>>
                            ELSE <<ValueOf(heap, heap.current[1])>>
        r == GenerateWeather(season, previous_weather, weather_by_season, weathers_data, s)
        init_list == Len(heap.lists) + 1
        self == IF heap.current = <<>> THEN Len(heap.objects) + 1 ELSE heap.current[1]
        objects == IF heap.current = <<>>
                   THEN Append(heap.objects, [name |-> None, effects |-> init_list])
                   ELSE heap.objects
        lists == IF heap.current = <<>> THEN Append(heap.lists, <<>>) ELSE heap.lists
    IN  IF r.raised \/ r.kept
        THEN [kept |-> r.kept, raised |-> r.raised,
              heap |-> [objects |-> objects, lists |-> lists,
                        current |-> IF r.raised THEN heap.current ELSE <<self>>]]
        ELSE [kept |-> FALSE, raised |-> FALSE,
              heap |-> [objects |-> [objects EXCEPT ![self] =
                                        [name |-> r.weather.name,
                                         effects |-> Len(lists) + 1]],
                        lists |-> Append(lists, r.weather.effects),
                        current |-> <<self>>]]

\* generate_overland_weather: Weather() makes instance self with a new empty
\* list; generate_weather assigns self.name and self.effects (on "No Change"
\* the previous instance's name and its list object, on a selection the list
\* object of weathers_data or the new list of the default, on a fallback a new
\* list); the instance is then stored in config.  r.no_change < r.draws exactly
\* when a weather other than the sentinel was selected.
GenerateOverlandWeatherOnHeap(heap, season, s) ==
    LET previous_weather == IF heap.current = <<>> THEN <<>>
                            ELSE <<ValueOf(heap, heap.current[1])>>
        r == GenerateWeather(season, previous_weather, weather_by_season, weathers_data, s)
        init_list == Len(heap.lists) + 1
        self == Len(heap.objects) + 1
        lists == Append(heap.lists, <<>>)
        in_file == {i \in DOMAIN weather_file_order : weather_file_order[i] = r.weather.name}
    IN  IF r.raised
        THEN [kept |-> FALSE, raised |-> TRUE,
              heap |-> [objects |-> Append(heap.objects, [name |-> None, effects |-> init_list]),
                        lists |-> lists, current |-> heap.current]]
        ELSE IF r.kept
        THEN [kept |-> TRUE, raised |-> FALSE,
              heap |-> [objects |-> Append(heap.objects,
                                           [name |-> heap.objects[heap.current[1]].name,
                                            effects |-> heap.objects[heap.current[1]].effects]),
                        lists |-> lists, current |-> <<self>>]]
        ELSE IF r.no_change < r.draws /\ in_file # {}
        THEN [kept |-> FALSE, raised |-> FALSE,
              heap |-> [objects |-> Append(heap.objects,
                                           [name |-> r.weather.name,
                                            effects |-> CHOOSE i \in in_file : TRUE]),
                        lists |-> lists, current |-> <<self>>]]
        ELSE [kept |-> FALSE, raised |-> FALSE,
              heap |-> [objects |-> Append(heap.objects,
                                           [name |-> r.weather.name,
                                            effects |-> init_list + 1]),
                        lists |-> Append(lists, <<>>), current |-> <<self>>]]

MaxInstances == 4

\* A call of generate_overland_weather on the heap the previous call left (the
\* empty heap for the first call); fn_call keeps the heap before and after.
CallGenerateOverlandWeather(season, s) ==
    LET before == IF fn_call = NoCall THEN EmptyHeap ELSE fn_call.after
        r == GenerateOverlandWeatherOnHeap(before, season, s)
    IN  /\ Len(before.objects) < MaxInstances
        /\ fn_call' = [fn |-> "generate_overland_weather", season |-> season,
                       before |-> before, after |-> r.heap,
                       kept |-> r.kept, raised |-> r.raised]
        /\ UNCHANGED <<calendar_data, site_vars, overland_vars, last_call>>

HeapSamples == WeatherSamples \cup {[k |-> 0, u0 |-> 0, u1 |-> 50]}

NextInstances ==
    \/ \E season \in Range(seasons_list), s \in HeapSamples :
           CallGenerateOverlandWeather(season, s)
    \/ Return

SpecInstances == Init /\ [][NextInstances]_vars

\* C30: generating a weather leaves the name and the effects of every earlier
\* Weather instance as they were; a "No Change" outcome is stored as a new
\* instance, other than the previous one, with the previous name and effects.
NoChangeMakesNewInstance ==
    fn_call.fn = "generate_overland_weather"
        => LET before == fn_call.before
               after == fn_call.after
           IN  /\ \A o \in DOMAIN before.objects :
                      ValueOf(after, o) = ValueOf(before, o)
               /\ fn_call.kept
                      => /\ after.current # before.current
                         /\ after.current[1] \notin DOMAIN before.objects
                         /\ ValueOf(after, after.current[1])
                                = ValueOf(before, before.current[1])

SnowKeptInNewInstance ==
    /\ fn_call.fn = "generate_overland_weather"
    /\ fn_call.kept
    /\ fn_call.season = "Summer"
    /\ ValueOf(fn_call.after, fn_call.after.current[1])
           = [name |-> "Snow", effects |-> <<"Cold", "Wet">>]
    /\ fn_call.after.current # fn_call.before.current

(***************************************************************************)
(* The New Day button of the Overland tab with a calendar: handle_new_day. *)
(* has_calendar_date is the value overland_content computed when it last   *)
(* rendered; every handler that sets the date refreshes overland_content,  *)
(* so it is the state of config.calendar_data when the button is pressed.  *)
(***************************************************************************)
\* The season handle_new_day leaves selected: the one of the current month when
\* it is not empty and in seasons_list.
SeasonAfterAdvance(calendar, selected) ==
    LET new_season == GetCurrentSeason(calendar)
    IN  IF new_season # "" /\ new_season \in Range(seasons_list) THEN new_season ELSE selected

\* handle_new_day with the season update left out: overland_new_day runs with the
\* season selected before the date moved.
HandleNewDayKeepingSeason(writes, roll, wsample, esamples) ==
    LET has_calendar_date == calendar_data # <<>> /\ calendar_data[1].current_date # <<>>
        advanced == IF has_calendar_date
                    THEN AdvanceCalendarDate(calendar_data, 1, writes).calendar
                    ELSE calendar_data
        lunar == IF has_calendar_date /\ advanced[1].lunar_cycle_length # 0
                 THEN AdvanceLunarDay(advanced, 1, 1, roll)
                 ELSE LunarOutcome(FALSE, 0, 0, 0, FALSE)
        calendar == IF lunar.ok THEN SaveLunarData(advanced, lunar.lunar_day, lunar.is_blood_moon)
                    ELSE advanced
        season == selected_overland_season
        w == overland_weather[season][generated_overland_weather][wsample]
        e == GenerateOverlandEncounters(selected_overland_zone, selected_overland_overlay,
                                        esamples)
    IN  /\ calendar_data' = calendar
        /\ selected_overland_season' = season
        /\ generated_overland_days' = generated_overland_days + 1
        /\ generated_overland_weather' =
               IF w.raised THEN generated_overland_weather ELSE <<w.weather>>
        /\ generated_overland_encounters' =
               IF w.raised \/ e.raised THEN generated_overland_encounters ELSE e.encounters
        /\ generated_overland_rest_info' =
               IF w.raised \/ e.raised THEN generated_overland_rest_info
               ELSE <<RestInfo(season, <<w.weather>>)>>
        /\ prior_day_weather' = generated_overland_weather
        /\ last_call' = [op |-> "handle_new_day", raised |-> w.raised \/ e.raised,
                         kept |-> w.kept, dated |-> has_calendar_date]
        /\ UNCHANGED <<selected_overland_zone, selected_overland_overlay, site_vars, fn_call>>

\* handle_new_day: with a dated calendar advance_calendar_date(1), then
\* advance_lunar_day(1) when lunar_cycle_length is set, then the season of the
\* new month when seasons_list has it; then overland_new_day.  writes is the
\* outcome of the file operations of the date, roll the blood-moon roll.  The
\* lunar day of the files of this session is set, so advance_lunar_day draws no
\* first day.
HandleNewDay(writes, roll, wsample, esamples) ==
    LET has_calendar_date == calendar_data # <<>> /\ calendar_data[1].current_date # <<>>
        advanced == IF has_calendar_date
                    THEN AdvanceCalendarDate(calendar_data, 1, writes).calendar
                    ELSE calendar_data
        lunar == IF has_calendar_date /\ advanced[1].lunar_cycle_length # 0
                 THEN AdvanceLunarDay(advanced, 1, 1, roll)
                 ELSE LunarOutcome(FALSE, 0, 0, 0, FALSE)
        calendar == IF lunar.ok THEN SaveLunarData(advanced, lunar.lunar_day, lunar.is_blood_moon)
                    ELSE advanced
        season == IF has_calendar_date
                  THEN SeasonAfterAdvance(calendar, selected_overland_season)
                  ELSE selected_overland_season
        w == overland_weather[season][generated_overland_weather][wsample]
        e == GenerateOverlandEncounters(selected_overland_zone, selected_overland_overlay,
                                        esamples)
    IN  /\ calendar_data' = calendar
        /\ selected_overland_season' = season
        /\ generated_overland_days' = generated_overland_days + 1
        /\ generated_overland_weather' =
               IF w.raised THEN generated_overland_weather ELSE <<w.weather>>
        /\ generated_overland_encounters' =
               IF w.raised \/ e.raised THEN generated_overland_encounters ELSE e.encounters
        /\ generated_overland_rest_info' =
               IF w.raised \/ e.raised THEN generated_overland_rest_info
               ELSE <<RestInfo(season, <<w.weather>>)>>
        /\ prior_day_weather' = generated_overland_weather
        /\ last_call' = [op |-> "handle_new_day", raised |-> w.raised \/ e.raised,
                         kept |-> w.kept, dated |-> has_calendar_date]
        /\ UNCHANGED <<selected_overland_zone, selected_overland_overlay, site_vars, fn_call>>

MaxCalendarDays == 3

\* The calendar files of the session: no date or any date of the calendar,
\* without lunar tracking or on day 3 of a cycle of 8 days.
DatedFiles ==
    {Calendar(dt, 0, <<>>, FALSE, 0) : dt \in {<<>>} \cup {<<v>> : v \in ValidDates}}
        \cup {Calendar(<<v>>, 8, <<3>>, FALSE, 50) : v \in ValidDates}

NextNewDay ==
    \/ \E calendar \in DatedFiles : LoadCalendarFile(calendar)
    \/ \E writes \in BOOLEAN, roll \in {1, 100}, wsample \in WeatherSamples :
           /\ generated_overland_days < MaxCalendarDays
           /\ HandleNewDay(writes, roll, wsample, QuietDay)

SpecNewDay == Init /\ [][NextNewDay]_vars

\* What New Day does with a dated calendar, the season it generates for given:
\* the date is the next day, the lunar day (when tracked) the next of its cycle,
\* the day counter one more, the stored weather one generated for that season
\* from the weather of before, and the rest-info a completed call stores the
\* one of that season and the new weather.
NewDayGeneratesFor(season) ==
    /\ calendar_data'[1].current_date
           = AdvanceCalendarDate(calendar_data, 1, TRUE).calendar[1].current_date
    /\ calendar_data[1].lunar_cycle_length # 0
           => calendar_data'[1].lunar_day
                  = <<CycleOverflow(calendar_data[1].lunar_day[1] + 1,
                                    CycleLength(calendar_data))>>
    /\ selected_overland_season' = season
    /\ generated_overland_days' = generated_overland_days + 1
    /\ \E wsample \in WeatherSampleSpace :
           LET w == GenerateWeather(season, generated_overland_weather,
                                    weather_by_season, weathers_data, wsample)
           IN  ~w.raised /\ generated_overland_weather' = <<w.weather>>
    /\ ~last_call'.raised
           => generated_overland_rest_info'
                  = <<RestInfo(season, generated_overland_weather')>>

\* C31 as stated: with a dated calendar New Day advances the date (and the lunar
\* day), selects the season of the month of the new date and generates the
\* weather and the rest DCs of the new day for that season.
NewDayUsesSeasonOfNewDate ==
    [][(last_call'.op = "handle_new_day" /\ last_call'.dated)
          => NewDayGeneratesFor(GetCurrentSeason(calendar_data'))]_vars

\* C31: with a dated calendar New Day advances the date (and the lunar day),
\* selects the season of the month of the new date when seasons_list has that
\* season and keeps the selected season otherwise, and generates the weather and
\* the rest DCs of the new day for the season then selected.
NewDayUsesListedSeasonOfNewDate ==
    [][(last_call'.op = "handle_new_day" /\ last_call'.dated)
          => NewDayGeneratesFor(
                 IF GetCurrentSeason(calendar_data') \in Range(seasons_list)
                 THEN GetCurrentSeason(calendar_data')
                 ELSE selected_overland_season)]_vars

NewDayEnteredSummer ==
    /\ last_call.op = "handle_new_day"
    /\ last_call.dated
    /\ calendar_data[1].current_date = <<Date(2, 1)>>
    /\ generated_overland_days = 1
    /\ selected_overland_season = "Summer"
    /\ generated_overland_weather = <<[name |-> "Rain", effects |-> <<"Wet">>]>>
    /\ generated_overland_rest_info[1].rest_dcs = restinfo_data.rest_DCs["Summer"]

(***************************************************************************)
(* The Site tab as a whole, in a zone where generation returns and in one  *)
(* where it raises: every button with quiet rolls and the timer form       *)
(* (SpecSiteTimers), and every button that stores encounters (SpecWindow). *)
(***************************************************************************)
MaxSiteTime == 20

MaxSiteTimers == 2

QuietTurn == [i \in DOMAIN SITE_TIME_SLOTS |-> SiteMiss]

NextSiteTimers ==
    \/ SiteReset(QuietTurn)
    \/ generated_site_time < MaxSiteTime /\ SiteNewTurn(SiteMiss)
    \/ SiteRegenerateTurn(QuietTurn)
    \/ \E name \in TimerNames, duration \in TimerDurations :
           Len(generated_site_timers) < MaxSiteTimers /\ SiteAddTimer(name, duration)
    \/ \E timer_index \in (0 - 1)..MaxSiteTimers : SiteDeleteTimer(timer_index)
    \/ \E zone \in {"Cave", "Crypt"} : SelectSiteZone(zone)

SpecSiteTimers == Init /\ [][NextSiteTimers]_vars

MaxWindowTime == 20

NextWindow ==
    \/ \E samples \in SiteRuns : SiteReset(samples)
    \/ \E sample \in SiteSamples :
           generated_site_time < MaxWindowTime /\ SiteNewTurn(sample)
    \/ \E samples \in SiteRuns : SiteRegenerateTurn(samples)
    \/ \E sample \in SiteSamples : RegenerateIndividualSiteEncounter("40 minutes", sample)
    \/ \E zone \in {"Cave", "Crypt"} : SelectSiteZone(zone)

SpecWindow == Init /\ [][NextWindow]_vars

\* C32: in every state the site operations reach, the timer list is ascending by
\* remaining duration, and add-timer puts the new timer after the timers of the
\* same duration, so that equal timers stand in the order they were added.
TimersStaySorted ==
    /\ [](\A i \in 1..(Len(generated_site_timers) - 1) :
              generated_site_timers[i].remaining_duration
                  <= generated_site_timers[i + 1].remaining_duration)
    /\ [][last_call'.op = "site_add_timer"
             => LET old == generated_site_timers
                    new == generated_site_timers'
                IN  \E j \in DOMAIN new :
                        /\ new[j].name = last_call'.name
                        /\ SubSeq(new, 1, j - 1) \o SubSeq(new, j + 1, Len(new)) = old
                        /\ \A i \in 1..(j - 1) :
                               new[i].remaining_duration <= new[j].remaining_duration
                        /\ \A i \in (j + 1)..Len(new) :
                               new[i].remaining_duration > new[j].remaining_duration]_vars

EqualTimersInOrderAdded ==
    /\ last_call.op = "site_add_timer"
    /\ last_call.name = "torch"
    /\ generated_site_time = 10
    /\ generated_site_timers = <<[name |-> "ward", remaining_duration |-> 10],
                                 [name |-> "torch", remaining_duration |-> 10]>>

\* C33: in every state the site operations reach, every timer of the list has a
\* remaining duration of 0 or more.
TimersNeverNegative ==
    \A i \in DOMAIN generated_site_timers : generated_site_timers[i].remaining_duration >= 0

TimerLeftAtZero ==
    /\ last_call.op = "site_new_turn"
    /\ last_call.raised
    /\ generated_site_time = 20
    /\ generated_site_timers = <<[name |-> "ward", remaining_duration |-> 0]>>

\* C34 as stated: in every reachable site state each populated encounter of the
\* window has the label of the slot that holds it as its time.
TimeIsSlotHoldingIt ==
    \A slot \in DOMAIN generated_site_encounters :
        IsEncounter(generated_site_encounters[slot])
            => generated_site_encounters[slot].time = slot

\* C34: in every reachable site state each populated encounter of the window has
\* as its time the label of the slot it was generated for: the slot that holds
\* it after reset, regenerate-turn and regenerate-one-slot, and the slot it held
\* before for an encounter that new-turn has moved one slot towards Current, so
\* that the time names the slot that holds it or a later one.
TimeIsSlotOfGeneration ==
    /\ [](\A slot \in DOMAIN generated_site_encounters :
              IsEncounter(generated_site_encounters[slot])
                  => /\ generated_site_encounters[slot].time \in AllSlots
                     /\ SlotIndex[generated_site_encounters[slot].time] >= SlotIndex[slot])
    /\ [][(last_call'.op \in {"site_reset", "site_regenerate_turn"} /\ ~last_call'.raised)
             => \A slot \in DOMAIN generated_site_encounters' :
                    IsEncounter(generated_site_encounters'[slot])
                        => generated_site_encounters'[slot].time = slot]_vars
    /\ [][(last_call'.op = "regenerate_individual_site_encounter" /\ ~last_call'.raised)
             => \E slot \in DOMAIN generated_site_encounters' :
                    /\ \A other \in DOMAIN generated_site_encounters' \ {slot} :
                           generated_site_encounters'[other] = generated_site_encounters[other]
                    /\ IsEncounter(generated_site_encounters'[slot])
                           => generated_site_encounters'[slot].time = slot]_vars
    /\ [][(last_call'.op = "site_new_turn" /\ ~last_call'.raised)
             => /\ \A i \in 1..5 :
                       SITE_TIME_SLOTS[i + 1] \in DOMAIN generated_site_encounters
                           => generated_site_encounters'[SITE_TIME_SLOTS[i]].time
                                  = generated_site_encounters[SITE_TIME_SLOTS[i + 1]].time
                /\ IsEncounter(generated_site_encounters'["50 minutes"])
                       => generated_site_encounters'["50 minutes"].time = "50 minutes"]_vars

CurrentHoldsLaterLabel ==
    /\ last_call.op = "site_new_turn"
    /\ ~last_call.raised
    /\ generated_site_time = 20
    /\ IsEncounter(generated_site_encounters["Current"])
    /\ generated_site_encounters["Current"].time = "20 minutes"
    /\ generated_site_encounters["50 minutes"].time = "50 minutes"

\* C35: from application start, after each site new-turn, regenerate-turn,
\* regenerate-one-slot and reset the window holds exactly the six slot labels,
\* each with an encounter, empty or populated, and the elapsed minutes are 10
\* times the number of new-turns since the last reset or the start: a reset
\* leaves 0, a new-turn adds 10 and a regeneration leaves the minutes alone.
WindowHoldsSixSlots ==
    /\ [](generated_site_time >= 0 /\ generated_site_time % 10 = 0)
    /\ [][last_call'.op \in {"site_reset", "site_new_turn", "site_regenerate_turn",
                            "regenerate_individual_site_encounter"}
             => /\ DOMAIN generated_site_encounters' = AllSlots
                /\ \A slot \in AllSlots :
                       \/ generated_site_encounters'[slot] = NoEncounter
                       \/ generated_site_encounters'[slot].time \in AllSlots
                /\ generated_site_time' =
                       IF last_call'.op = "site_reset" THEN 0
                       ELSE IF last_call'.op = "site_new_turn" THEN generated_site_time + 10
                       ELSE generated_site_time]_vars

(***************************************************************************)
(* The day counter and the day's content                                   *)
(***************************************************************************)
\* SpecDay: the five overland handlers that touch the day or its content, and
\* the zone dropdown.
MaxDayCount == 2

NextDay ==
    \/ OverlandReset
    \/ \E wsample \in WeatherSamples, esamples \in OverlandRuns :
           generated_overland_days < MaxDayCount /\ OverlandNewDay(wsample, esamples)
    \/ \E wsample \in WeatherSamples : OverlandRegenerateDay(wsample, QuietDay)
    \/ \E wsample \in WeatherSamples : RegenerateIndividualWeather(wsample)
    \/ \E sample \in OverlandSamples : RegenerateIndividualOverlandEncounter("Dusk", sample)
    \/ \E zone \in {"Forest", "Mire"} : SelectOverlandZone(zone)

SpecDay == Init /\ [][NextDay]_vars

DayContentUnset ==
    /\ generated_overland_weather = <<>>
    /\ generated_overland_rest_info = <<>>
    /\ generated_overland_encounters = EmptyDict

\* The day counter is the number of new-days since the last reset or the start:
\* a reset leaves 0, a new-day adds 1, a regeneration leaves it alone.
DayCounterSteps ==
    [][/\ last_call'.op = "overland_reset" => generated_overland_days' = 0
       /\ last_call'.op = "overland_new_day"
              => generated_overland_days' = generated_overland_days + 1
       /\ last_call'.op \in {"overland_regenerate_day", "regenerate_individual_weather",
                             "regenerate_individual_overland_encounter"}
              => generated_overland_days' = generated_overland_days]_vars

ZonesWithChance(chance) ==
    [z \in DOMAIN zones_data |-> [zones_data[z] EXCEPT !.encounter_chance = chance]]

ChanceStrings == {<<"0", "%">>, <<"0">>, Chars("5", "0", "%"), <<"1", "0", "0", "%">>}

\* What fn_call keeps of a generator call under the chance string chance, r
\* being the outcome of the call.
ChanceCall(fn, zone, active_zone, chance, s, r) ==
    /\ fn_call = NoCall
    /\ fn_call' = [fn |-> fn, zone |-> zone, active_zone |-> active_zone,
                   encounter_chance |-> chance, s |-> s, raised |-> r.raised,
                   caught |-> r.caught, enc |-> r.enc]
    /\ UNCHANGED <<calendar_data, site_vars, overland_vars, last_call>>

\* SpecChance: single calls of the two generators for zones with weights, under
\* chance strings at both ends of the scale and between them.
NextChance ==
    \/ \E zone \in {"Cave", "Crypt"}, chance \in ChanceStrings, s \in SiteSampleSpace :
           ChanceCall("generate_site_encounter", zone, zone, chance, s,
                      GenerateSiteEncounter(zone, "50 minutes", encounters_data,
                                            encounter_by_zone, ZonesWithChance(chance), s))
    \/ \E overlay \in {None, "Fog"}, chance \in ChanceStrings,
          s \in [coin : GenCoins, roll : Rolls, u : Draws] :
           ChanceCall("generate_overland_encounter", "Forest",
                      ActiveZone("Forest", overlay, s.coin), chance, s,
                      GenerateOverlandEncounter("Forest", overlay, "Dusk", encounters_data,
                                                encounter_by_zone_and_watch,
                                                ZonesWithChance(chance), s))
    \/ Return

SpecChance == Init /\ [][NextChance]_vars

\* C37: for a zone whose encounter chance is 0 every generated encounter, site
\* or overland, is "no encounter" whatever the roll in [0,1); for a zone whose
\* chance is 100% no roll makes the chance test give "no encounter", so that an
\* empty result comes from the selection only.
ChanceZeroNeverChanceFullAlways ==
    fn_call # NoCall
        => LET chance == ParsePercentage(fn_call.encounter_chance).value
           IN  /\ chance = 0 => ~IsEncounter(fn_call.enc)
               /\ chance = 100 => (IsEncounter(fn_call.enc) \/ fn_call.caught)

(***************************************************************************)
(* Advancing the date in one call and in several                           *)
(***************************************************************************)
\* The days of all months together.
RECURSIVE TotalDays(_)
TotalDays(months) == IF months = <<>> THEN 0 ELSE Head(months).days + TotalDays(Tail(months))

\* n calls of advance_calendar_date(1) one after the other.
RECURSIVE AdvanceOneAtATime(_, _)
AdvanceOneAtATime(calendar, n) ==
    IF n = 0 THEN calendar
    ELSE AdvanceOneAtATime(AdvanceCalendarDate(calendar, 1, TRUE).calendar, n - 1)

\* C38: from a valid current date, advancing by a+b days in one call gives the
\* date that advancing by a days and then by b days gives, advancing by N days
\* gives the date of N advances by one day, and advancing by the days of all
\* months together gives the date the call started from.
AdvanceIsAdditive ==
    (last_call.op = "advance_calendar_date" /\ last_call.before # <<>>)
        => LET start == <<[calendar_data[1] EXCEPT !.current_date = last_call.before]>>
               after == calendar_data[1].current_date
           IN  /\ \A a \in 0..last_call.days, writes \in BOOLEAN :
                      AdvanceCalendarDate(AdvanceCalendarDate(start, a, writes).calendar,
                                          last_call.days - a, writes).calendar[1].current_date
                          = after
               /\ AdvanceOneAtATime(start, last_call.days)[1].current_date = after
               /\ last_call.days = TotalDays(calendar_data[1].months)
                      => after = last_call.before

AdvancedAWholeYear ==
    /\ last_call.op = "advance_calendar_date"
    /\ last_call.days = TotalDays(calendar_months)
    /\ last_call.before = <<Date(2, 2)>>
    /\ calendar_data[1].current_date = <<Date(2, 2)>>

(***************************************************************************)
(* The overflow loop of advance_calendar_date, one iteration per step      *)
(***************************************************************************)
\* The day-counts of the months of the calendars loaded: the session's calendar,
\* one with a month of no days, and calendars none of whose months has a day.
LoadedMonthDays == {<<3, 2, 4>>, <<3, 0, 4>>, <<0>>, <<0, 0>>}

\* The stored dates: the month index within the months and beside them.
StoredMonths == 0..4

StoredDays == 1..4

MaxLoopAdvance == 4

\* advance_calendar_date up to the while loop: the date is read and days added.
AdvanceCalendarDateEnter(month_days, month, day, days) ==
    /\ fn_call = NoCall
    /\ fn_call' = [fn |-> "advance_calendar_date", month_days |-> month_days,
                   month |-> month, day |-> day + days, pc |-> "while"]
    /\ UNCHANGED <<calendar_data, site_vars, overland_vars, last_call>>

\* One iteration of the while loop: the safety wrap of the month, then the
\* break, or the overflow to the next month with its wrap.
AdvanceCalendarDateIterate ==
    /\ fn_call # NoCall
    /\ fn_call.pc = "while"
    /\ LET months == fn_call.month_days
           month == IF fn_call.month < 1 \/ fn_call.month > Len(months)
                    THEN 1 ELSE fn_call.month
           days_in_month == months[month]
       IN  fn_call' =
               IF fn_call.day <= days_in_month
               THEN [fn_call EXCEPT !.month = month, !.pc = "save"]
               ELSE [fn_call EXCEPT !.month = IF month + 1 > Len(months) THEN 1
                                              ELSE month + 1,
                                    !.day = fn_call.day - days_in_month]
    /\ UNCHANGED <<calendar_data, site_vars, overland_vars, last_call>>

\* save_calendar_date and the return.
AdvanceCalendarDateSave ==
    /\ fn_call # NoCall
    /\ fn_call.pc = "save"
    /\ fn_call' = NoCall
    /\ UNCHANGED <<calendar_data, site_vars, overland_vars, last_call>>

NextAdvanceLoop ==
    \/ \E month_days \in LoadedMonthDays, month \in StoredMonths, day \in StoredDays,
          days \in 0..MaxLoopAdvance :
           AdvanceCalendarDateEnter(month_days, month, day, days)
    \/ AdvanceCalendarDateIterate
    \/ AdvanceCalendarDateSave

\* The loop runs to its break without waiting for anything: an iteration that
\* can be taken is taken.
SpecAdvanceLoop ==
    Init /\ [][NextAdvanceLoop]_vars /\ WF_vars(AdvanceCalendarDateIterate)

\* C39: advance_calendar_date terminates for every loaded calendar with at least
\* one month, every stored date and every number of days: a call that has
\* entered the while loop reaches the save of the new date.
AdvanceCalendarDateTerminates ==
    (fn_call # NoCall /\ fn_call.pc = "while") ~> (fn_call # NoCall /\ fn_call.pc = "save")
====
